---- MODULE Spec2Model ----
(***************************************************************************)
(* Verification model of the mail mirror / payment analysis service:       *)
(*   - GoogleOAuthProvider   token lifecycle (getValidMailAccessToken)      *)
(*   - GoogleService         incremental mailbox synchronisation            *)
(*   - GoogleScheduler       periodic and manual sync triggers              *)
(*   - EmailAnalysisService  analysis of stored mail, duplicate detection   *)
(*   - EmailAnalysisScheduler  in-memory queue, producer and consumer       *)
(* Every asynchronous method is cut at its await points: one action per     *)
(* stretch of code between two awaits that touch shared state.              *)
(***************************************************************************)
EXTENDS Integers, Sequences, FiniteSets, TLC

\* ------------------------------------------------------------------ bounds
NumUsers == 2
MaxMsgs == 2
MaxNow == 4

Users == 1..NumUsers
MsgIds == 1..MaxMsgs

None == 0

\* ------------------------------------------------------------------ helpers
Min(a, b) == IF a < b THEN a ELSE b

Range(s) == {s[i] : i \in 1..Len(s)}

RECURSIVE SeqOfSet(_)
\* ascending enumeration of a finite set of integers
SeqOfSet(S) ==
    IF S = {} THEN <<>>
    ELSE LET m == CHOOSE x \in S : \A y \in S : x <= y
         IN <<m>> \o SeqOfSet(S \ {m})

RECURSIVE FilterSeq(_, _)
\* Array.prototype.filter with the predicate "is a member of keep"
FilterSeq(s, keep) ==
    IF s = <<>> THEN <<>>
    ELSE (IF Head(s) \in keep THEN <<Head(s)>> ELSE <<>>) \o FilterSeq(Tail(s), keep)

Take(s, n) == SubSeq(s, 1, Min(n, Len(s)))
Drop(s, n) == SubSeq(s, Min(n, Len(s)) + 1, Len(s))
\* the sequences over S of length at most n
SeqsUpTo(S, n) == UNION {[1..k -> S] : k \in 0..n}


\* ------------------------------------------------------------------ state
VARIABLES
    clock,      \* Date.now(), in ticks of TickMs milliseconds
    accounts,   \* mail_accounts: userId -> the user's active gmail MailAccount row
    tokenCall,  \* outcome of the latest getValidMailAccessToken call
    refreshRun, \* the refreshAllMailTokens call in flight, or the latest completed one
    mailbox,    \* provider side: userId -> ids of the messages in the Gmail mailbox
    emails,     \* emails table: rows [id, userId, messageId, receivedAt, analyzedAt]
    attachments, \* email_attachments table: rows [emailId, attachmentId]
    failedAttachments, \* attachments whose download or insert failed (logged by the catch): rows [emailId, attachmentId]
    collected,  \* the latest collectFiles call: the message's material and what was collected
    parsed,     \* the latest parseGmailMessage call: the payload and the parsed message
    isSyncing,  \* GoogleScheduler.isSyncing
    runs,       \* in-flight sync invocations, one per entry point
    done,       \* what the latest completed syncUserEmails call returned
    lastSync,   \* per user: the latest completed syncUserEmails, while no mail arrived since it began
    reports,      \* payment_reports table
    nextReportId, \* payment_reports id sequence
    queue,        \* EmailAnalysisScheduler.queue
    isEnqueuing,  \* EmailAnalysisScheduler.isEnqueuing
    isProcessing, \* EmailAnalysisScheduler.isProcessing
    producers,    \* in-flight enqueueUnanalyzedEmails invocations
    runners,      \* in-flight loops over analyzeEmail: processQueue, analyzeUserEmails, the controller
    calls,        \* per runner: its analyzeEmail call in progress
    analyzed,     \* what the latest completed analyzeEmail call returned or threw
    consumerLog,  \* the latest "[Queue Consumer] Done" line: the counts of the run that ended
    lastTrigger,  \* the latest cron tick or manual trigger of the queue's actors
    failedOnce    \* ids of the emails whose analysis failed in processQueue

tokenVars == <<clock, accounts, tokenCall, refreshRun>>
syncVars == <<mailbox, emails, attachments, failedAttachments, isSyncing, runs, done, lastSync>>
queueVars == <<queue, isEnqueuing, isProcessing, producers, lastTrigger, failedOnce>>
analysisVars == <<reports, nextReportId, runners, calls, analyzed, consumerLog>>
contentVars == <<collected, parsed>>
vars ==
    <<clock, accounts, tokenCall, refreshRun, mailbox, emails, attachments, failedAttachments, collected, parsed,
      isSyncing, runs, done, lastSync,
      reports, nextReportId, queue, isEnqueuing, isProcessing, producers, runners,
      calls, analyzed, consumerLog, lastTrigger, failedOnce>>

\* ------------------------------------------------------------------ TokenVault
TickMs == 30000
RefreshMarginMs == 60000
\* expires_in values (seconds) the token endpoint answers with; 0 = field absent
ExpiresInChoices == {0, 90}

\* time is scaled: the model's clock starts at BaseMs and three months last ThreeMonthsMs
BaseMs == 200000
NowMs == BaseMs + clock * TickMs

NoAccount ==
    [exists |-> FALSE, accessToken |-> None, refreshToken |-> None,
     expiresAt |-> 0, needsReauth |-> FALSE]

\* an access token is identified by the tick at which the provider issued it
IssuedToken == clock + 1

\* upsertMailAccount: create or update the user's active gmail account
upsertMailAccount(acc, hasRefresh, expiresIn) ==
    IF ~acc.exists
    THEN [exists |-> TRUE,
          accessToken |-> IssuedToken,
          refreshToken |-> IF hasRefresh THEN 1 ELSE None,
          expiresAt |-> IF expiresIn # 0 THEN NowMs + expiresIn * 1000 ELSE 0,
          needsReauth |-> FALSE]
    ELSE [exists |-> TRUE,
          accessToken |-> IssuedToken,
          refreshToken |-> IF hasRefresh THEN 1 ELSE acc.refreshToken,
          expiresAt |-> IF expiresIn # 0 THEN NowMs + expiresIn * 1000 ELSE acc.expiresAt,
          needsReauth |-> FALSE]

\* the token is used until the very millisecond it expires
expiredWithoutMargin(acc) ==
    \/ acc.accessToken = None
    \/ acc.expiresAt = 0
    \/ NowMs >= acc.expiresAt

\* isExpired of getValidMailAccessToken
isExpired(acc) ==
    \/ acc.accessToken = None
    \/ acc.expiresAt = 0
    \/ NowMs >= acc.expiresAt - RefreshMarginMs

\* a rejected exchange hands the stored row back as if it had been refreshed
refreshKeepsStale(acc, providerOk, expiresIn) ==
    IF acc.refreshToken = None
    THEN [ok |-> FALSE, acc |-> [acc EXCEPT !.needsReauth = TRUE]]
    ELSE IF ~providerOk
    THEN [ok |-> TRUE, acc |-> acc]
    ELSE [ok |-> TRUE,
          acc |-> [acc EXCEPT !.accessToken = IssuedToken,
                              !.expiresAt = IF expiresIn # 0 THEN NowMs + expiresIn * 1000 ELSE 0,
                              !.needsReauth = FALSE]]

\* refreshMailAccountToken: [ok, acc] where acc is the row as saved
refreshMailAccountToken(acc, providerOk, expiresIn) ==
    IF acc.refreshToken = None
    THEN [ok |-> FALSE, acc |-> [acc EXCEPT !.needsReauth = TRUE]]
    ELSE IF ~providerOk
    THEN [ok |-> FALSE, acc |-> [acc EXCEPT !.needsReauth = TRUE]]
    ELSE [ok |-> TRUE,
          acc |-> [acc EXCEPT !.accessToken = IssuedToken,
                              !.expiresAt = IF expiresIn # 0 THEN NowMs + expiresIn * 1000 ELSE 0,
                              !.needsReauth = FALSE]]

\* getValidMailAccessToken: [kind, token, acc, refreshed, attempted]
\* attempted: refreshMailAccountToken was called
getValidMailAccessToken(acc, providerOk, expiresIn) ==
    IF ~acc.exists
    THEN [kind |-> "error", token |-> None, acc |-> acc, refreshed |-> FALSE,
          attempted |-> FALSE]
    ELSE IF ~isExpired(acc)
    THEN [kind |-> "token", token |-> acc.accessToken, acc |-> acc, refreshed |-> FALSE,
          attempted |-> FALSE]
    ELSE LET r == refreshMailAccountToken(acc, providerOk, expiresIn)
         IN IF r.ok
            THEN [kind |-> "token", token |-> r.acc.accessToken, acc |-> r.acc,
                  refreshed |-> TRUE, attempted |-> TRUE]
            ELSE [kind |-> "error", token |-> None, acc |-> r.acc, refreshed |-> FALSE,
                  attempted |-> TRUE]

NoCall ==
    [user |-> None, kind |-> "none", token |-> None, wasExpired |-> FALSE,
     hadRefreshToken |-> FALSE, providerOk |-> FALSE, stale |-> None,
     needsReauth |-> FALSE, attempted |-> FALSE, dueIn |-> 0]

Tick ==
    /\ clock < MaxNow
    /\ clock' = clock + 1
    /\ UNCHANGED <<accounts, tokenCall, refreshRun>>

OAuthCallback(u, hasRefresh, expiresIn) ==
    /\ accounts' = [accounts EXCEPT ![u] = upsertMailAccount(accounts[u], hasRefresh, expiresIn)]
    /\ UNCHANGED <<clock, tokenCall, refreshRun>>

GetToken(u, providerOk, expiresIn) ==
    LET acc == accounts[u]
        r == getValidMailAccessToken(acc, providerOk, expiresIn)
    IN /\ accounts' = [accounts EXCEPT ![u] = r.acc]
       /\ tokenCall' = [user |-> u, kind |-> r.kind, token |-> r.token,
                        wasExpired |-> acc.exists /\ isExpired(acc),
                        hadRefreshToken |-> acc.refreshToken # None,
                        providerOk |-> providerOk,
                        stale |-> acc.accessToken,
                        needsReauth |-> accounts'[u].needsReauth,
                        attempted |-> r.attempted,
                        dueIn |-> IF acc.expiresAt = 0 THEN 0 ELSE acc.expiresAt - NowMs]
       /\ UNCHANGED <<clock, refreshRun>>

\* ---- refreshAllMailTokens
NoRefreshRun ==
    [stage |-> "idle", todo |-> <<>>, rows |-> [u \in Users |-> NoAccount],
     outcome |-> [u \in Users |-> "none"], success |-> 0, failed |-> 0]

\* the first failure ends the loop
countAndStop(run, u, ok) ==
    [run EXCEPT !.todo = IF ok THEN Tail(run.todo) ELSE <<>>,
                !.stage = IF ok /\ Tail(run.todo) # <<>> THEN "loop" ELSE "done",
                !.outcome[u] = IF ok THEN "success" ELSE "failed",
                !.success = IF ok THEN run.success + 1 ELSE run.success,
                !.failed = IF ok THEN run.failed ELSE run.failed + 1]

\* one iteration of the for loop: success++ in the try, failed++ in the catch
countRefresh(run, u, ok) ==
    [run EXCEPT !.todo = Tail(run.todo),
                !.stage = IF Tail(run.todo) = <<>> THEN "done" ELSE "loop",
                !.outcome[u] = IF ok THEN "success" ELSE "failed",
                !.success = IF ok THEN run.success + 1 ELSE run.success,
                !.failed = IF ok THEN run.failed ELSE run.failed + 1]

\* the accounts query: every active gmail account, needsReauth or not
RefreshAllFind ==
    LET found == SeqOfSet({u \in Users : accounts[u].exists})
    IN /\ refreshRun.stage # "loop"
       /\ refreshRun' = [NoRefreshRun EXCEPT !.stage = IF found = <<>> THEN "done" ELSE "loop",
                                             !.todo = found,
                                             !.rows = accounts]
       /\ UNCHANGED <<clock, accounts, tokenCall>>

\* the loop body for the next account found: the row read by the query is
\* refreshed and saved; the catch marks it needsReauth and saves it
RefreshAllStep(providerOk, expiresIn) ==
    LET u == Head(refreshRun.todo)
        r == refreshMailAccountToken(refreshRun.rows[u], providerOk, expiresIn)
    IN /\ refreshRun.stage = "loop"
       /\ accounts' = [accounts EXCEPT ![u] =
                          IF r.ok THEN r.acc ELSE [r.acc EXCEPT !.needsReauth = TRUE]]
       /\ refreshRun' = countRefresh(refreshRun, u, r.ok)
       /\ UNCHANGED <<clock, tokenCall>>


\* ------------------------------------------------------------------ MailboxSyncEngine
ThreeMonthsMs == 100000
MaxPageSize == 500
FirstSyncPageSize == 500
IncrementalPageSize == 50
CallerMaxResults == 100
\* the provider may answer a list request with fewer ids than maxResults
ProviderPage == 2

\* at most one flagged run (handleEmailSync, triggerSync()) and one direct call
\* of syncUserEmails (triggerSync(userId), POST /google/sync) are followed at a time
Slots == {"flagged", "direct"}

\* internalDate (epoch milliseconds) of the provider's messages
MsgDate(m) ==
    CASE m = 1 -> 180500
      [] m = 2 -> 190100
      [] m = 3 -> 181700
      [] m = 4 -> 50000
      [] OTHER -> 190100 + m * 1500

\* the messages the provider can hold for a user: the first user's mailbox is the busy one
Deliverable(u) == IF u = 1 THEN MsgIds ELSE {1}

EmailsOf(u) == {e \in emails : e.userId = u}
StoredIds(u) == {e.messageId : e \in EmailsOf(u)}

\* emailRepo.findOne({ where: { userId }, order: { receivedAt: 'DESC' } }): 0 when no row
lastEmailReceivedAt(u) ==
    IF EmailsOf(u) = {} THEN None
    ELSE (CHOOSE e \in EmailsOf(u) : \A f \in EmailsOf(u) : f.receivedAt <= e.receivedAt).receivedAt

isFirstSync(u) == lastEmailReceivedAt(u) = None

\* the bound is the second of the latest stored message itself
afterWithoutMargin(u) ==
    IF ~isFirstSync(u)
    THEN lastEmailReceivedAt(u) \div 1000
    ELSE (NowMs - ThreeMonthsMs) \div 1000

\* the after:<unix seconds> bound of the list query
afterTimestamp(u) ==
    IF ~isFirstSync(u)
    THEN (lastEmailReceivedAt(u) \div 1000) + 2
    ELSE (NowMs - ThreeMonthsMs) \div 1000

\* requestedPageSize and pageSize of syncUserEmails; maxResults = 0 stands for an absent option
pageSize(maxResults, first) ==
    Min(IF maxResults # None THEN maxResults
        ELSE IF first THEN FirstSyncPageSize ELSE IncrementalPageSize,
        MaxPageSize)

RECURSIVE NewestFirst(_)
NewestFirst(S) ==
    IF S = {} THEN <<>>
    ELSE LET m == CHOOSE x \in S : \A y \in S : MsgDate(y) <= MsgDate(x)
         IN <<m>> \o NewestFirst(S \ {m})

\* provider: the ids matching after:<seconds>, newest first
Matching(u, after) == NewestFirst({m \in mailbox[u] : MsgDate(m) \div 1000 >= after})

\* provider: one page of the list, [messages, nextPageToken]; the token is an offset, 0 = none
\* stalled: the provider answers a follow-up request with no ids and the token to go on with
fetchGmailMessageList(u, after, maxResults, pageToken, stalled) ==
    LET rest == Drop(Matching(u, after), pageToken)
        n == Min(maxResults, ProviderPage)
    IN IF stalled /\ pageToken # None
       THEN [messages |-> <<>>, nextPageToken |-> pageToken]
       ELSE [messages |-> Take(rest, n),
             nextPageToken |-> IF Len(rest) > n THEN pageToken + n ELSE None]

\* the page token kept for the next round of the do/while, and its condition
morePages(first, nextPageToken) == first /\ nextPageToken # None

NoPages == [messages |-> <<>>, requests |-> 0]

RECURSIVE listPages(_, _, _, _, _, _)
\* the do/while of syncUserEmails: allMessages after the loop, and the list requests sent
\* stallAt: the page token the provider answers with an empty page (0 = never)
listPages(u, after, first, pageToken, acc, stallAt) ==
    LET page == fetchGmailMessageList(u, after, pageSize(CallerMaxResults, first), pageToken,
                                      pageToken = stallAt)
        sent == acc.requests + 1
    IN IF page.messages = <<>> THEN [acc EXCEPT !.requests = sent]
       ELSE IF morePages(first, page.nextPageToken)
            THEN listPages(u, after, first, page.nextPageToken,
                           [messages |-> acc.messages \o page.messages, requests |-> sent],
                           stallAt)
            ELSE [messages |-> acc.messages \o page.messages, requests |-> sent]

\* getExistingMessageIds
getExistingMessageIds(u, ids) == {m \in StoredIds(u) : m \in Range(ids)}

\* the unique index (userId, messageId) of the emails table drops every insert
uniqueIndexDropped(row) == FALSE

\* the unique index (userId, messageId) of the emails table: the insert of row is rejected
uniqueViolation(row) ==
    \E e \in emails : e.userId = row.userId /\ e.messageId = row.messageId

\* the row is built and never written
saveSkipped(table, row) == table

\* emailRepo.save(email): the table after the insert
saveEmail(table, row) == table \cup {row}

NewEmail(u, m) ==
    [id |-> Cardinality(emails) + 1, userId |-> u, messageId |-> m, receivedAt |-> MsgDate(m),
     analyzedAt |-> None]

\* attachments and inline images parseGmailMessage finds in a message
MaxAttachments == 2
AttachmentIds(m) == IF m = 2 THEN 1..MaxAttachments ELSE {}

\* the loop over attachments: a failed download or insert is caught, the others are stored
saveAttachments(table, emailId, ids, attOk) ==
    table \cup {[emailId |-> emailId, attachmentId |-> a] : a \in ids \cap attOk}

\* the catch inside the loop over attachments: each failure is logged and nothing is
\* rethrown
failedDownloads(emailId, ids, attOk) ==
    {[emailId |-> emailId, attachmentId |-> a] : a \in ids \ attOk}

\* the attachments are downloaded before the message itself is fetched
attachmentsFirst(row, fetchOk, attOk) ==
    LET saved == fetchOk /\ ~uniqueViolation(row)
    IN [saved |-> saved,
        emails |-> IF saved THEN saveEmail(emails, row) ELSE emails,
        attachments |-> saveAttachments(attachments, row.id, AttachmentIds(row.messageId), attOk),
        failed |-> failedDownloads(row.id, AttachmentIds(row.messageId), attOk)]

\* the save replaces the stored row of the same message
fetchAndUpsert(row, fetchOk, attOk) ==
    [saved |-> fetchOk,
     emails |-> IF fetchOk
                THEN {x \in emails : ~(x.userId = row.userId /\ x.messageId = row.messageId)}
                     \cup {row}
                ELSE emails,
     attachments |-> IF fetchOk
                     THEN saveAttachments(attachments, row.id,
                                          AttachmentIds(row.messageId), attOk)
                     ELSE attachments,
     failed |-> IF fetchOk
                THEN failedDownloads(row.id, AttachmentIds(row.messageId), attOk)
                ELSE {}]

\* the first attachment that fails ends the loop over the attachments
stopsAtFailedAttachment(row, fetchOk, attOk) ==
    LET saved == fetchOk /\ ~uniqueViolation(row)
        ids == AttachmentIds(row.messageId)
        before == {a \in ids : \A b \in ids : b <= a => b \in attOk}
        first == {a \in ids \ attOk : \A b \in ids : b < a => b \in attOk}
    IN [saved |-> saved,
        emails |-> IF saved THEN saveEmail(emails, row) ELSE emails,
        attachments |-> IF saved
                        THEN saveAttachments(attachments, row.id, before, attOk)
                        ELSE attachments,
        failed |-> IF saved THEN failedDownloads(row.id, first, attOk) ELSE {}]

\* fetchAndSaveEmail: a failed fetch or parse, or a rejected insert, throws before any
\* attachment is looked at
fetchAndSaveEmail(row, fetchOk, attOk) ==
    LET saved == fetchOk /\ ~uniqueViolation(row)
    IN [saved |-> saved,
        emails |-> IF saved THEN saveEmail(emails, row) ELSE emails,
        attachments |-> IF saved
                        THEN saveAttachments(attachments, row.id,
                                             AttachmentIds(row.messageId), attOk)
                        ELSE attachments,
        failed |-> IF saved
                   THEN failedDownloads(row.id, AttachmentIds(row.messageId), attOk)
                   ELSE {}]

IdleRun ==
    [pc |-> "idle", kind |-> "none", flagged |-> FALSE, todo |-> <<>>,
     after |-> 0, requests |-> 0,
     all |-> <<>>, new |-> <<>>, newCount |-> 0, synced |-> 0,
     prevValid |-> FALSE, prevClean |-> FALSE, prevStore |-> {}, arrived |-> FALSE]

NoResult ==
    [user |-> None, kind |-> "none", synced |-> 0, skipped |-> 0,
     succ |-> FALSE, prevClean |-> FALSE, same |-> FALSE]

NoLast == [valid |-> FALSE, clean |-> FALSE, store |-> {}]

\* a syncUserEmails call for u is between its list request and its return
Syncing(s, u) == runs[s].pc \in {"diff", "save"} /\ Head(runs[s].todo) = u


\* an error thrown by one user's call ends the whole run
endsOnError(s, r, res, store) ==
    LET u == Head(r.todo)
        rest == Tail(r.todo)
        more == r.kind = "all" /\ rest # <<>> /\ res.kind # "error"
    IN /\ runs' = [runs EXCEPT ![s] =
                     IF more
                     THEN [IdleRun EXCEPT !.pc = "token", !.kind = r.kind,
                                          !.flagged = r.flagged, !.todo = rest]
                     ELSE IdleRun]
       /\ isSyncing' = IF ~more /\ r.flagged THEN FALSE ELSE isSyncing
       /\ done' = res
       /\ lastSync' = IF res.kind = "ok"
                      THEN [lastSync EXCEPT ![u] =
                              IF r.arrived THEN NoLast
                              ELSE [valid |-> TRUE, clean |-> res.synced = r.newCount,
                                    store |-> store]]
                      ELSE lastSync

\* the flag is cleared only when the run's last call returned without an error
keepsFlagOnError(s, r, res, store) ==
    LET u == Head(r.todo)
        rest == Tail(r.todo)
        more == r.kind = "all" /\ rest # <<>>
    IN /\ runs' = [runs EXCEPT ![s] =
                     IF more
                     THEN [IdleRun EXCEPT !.pc = "token", !.kind = r.kind,
                                          !.flagged = r.flagged, !.todo = rest]
                     ELSE IdleRun]
       /\ isSyncing' = IF ~more /\ r.flagged /\ res.kind # "error" THEN FALSE ELSE isSyncing
       /\ done' = res
       /\ lastSync' = IF res.kind = "ok"
                      THEN [lastSync EXCEPT ![u] =
                              IF r.arrived THEN NoLast
                              ELSE [valid |-> TRUE, clean |-> res.synced = r.newCount,
                                    store |-> store]]
                      ELSE lastSync

\* ---- the end of one syncUserEmails call of entry point s, and what follows it
\* res: the value returned ("ok") or the error thrown ("error")
\* A run of syncAllUsers goes on with its next user; any other run ends, and a
\* flagged run clears isSyncing in its finally block.
AfterUser(s, r, res, store) ==
    LET u == Head(r.todo)
        rest == Tail(r.todo)
        more == r.kind = "all" /\ rest # <<>>
    IN /\ runs' = [runs EXCEPT ![s] =
                     IF more
                     THEN [IdleRun EXCEPT !.pc = "token", !.kind = r.kind,
                                          !.flagged = r.flagged, !.todo = rest]
                     ELSE IdleRun]
       /\ isSyncing' = IF ~more /\ r.flagged THEN FALSE ELSE isSyncing
       /\ done' = res
       /\ lastSync' = IF res.kind = "ok"
                      THEN [lastSync EXCEPT ![u] =
                              IF r.arrived THEN NoLast
                              ELSE [valid |-> TRUE, clean |-> res.synced = r.newCount,
                                    store |-> store]]
                      ELSE lastSync

OkResult(r, synced, store) ==
    [user |-> Head(r.todo), kind |-> "ok", synced |-> synced,
     skipped |-> Len(r.all) - r.newCount,
     succ |-> r.prevValid, prevClean |-> r.prevClean,
     same |-> r.prevValid /\ store = r.prevStore]

ErrorResult(r) == [NoResult EXCEPT !.user = Head(r.todo), !.kind = "error"]

\* bookkeeping: the call is no longer the immediate successor of a completed call
Interrupted(r, arrived) ==
    [r EXCEPT !.arrived = @ \/ arrived, !.prevValid = FALSE, !.prevClean = FALSE, !.prevStore = {}]

\* ---- provider side: a message is delivered to a mailbox
Arrive(u, m) ==
    /\ m \in Deliverable(u)
    /\ m \notin mailbox[u]
    /\ mailbox' = [mailbox EXCEPT ![u] = @ \cup {m}]
    /\ lastSync' = [lastSync EXCEPT ![u] = NoLast]
    /\ runs' = [s \in Slots |-> IF Syncing(s, u) THEN Interrupted(runs[s], TRUE) ELSE runs[s]]
    /\ UNCHANGED <<emails, attachments, failedAttachments, isSyncing, done, tokenVars>>

\* ---- GoogleScheduler.handleEmailSync (cron): skip while isSyncing, else take the flag
HandleEmailSync ==
    /\ runs["flagged"].pc = "idle"
    /\ IF isSyncing
       THEN UNCHANGED <<runs, isSyncing>>
       ELSE /\ isSyncing' = TRUE
            /\ runs' = [runs EXCEPT !["flagged"] =
                          [IdleRun EXCEPT !.pc = "accounts", !.kind = "all", !.flagged = TRUE]]
    /\ UNCHANGED <<mailbox, emails, attachments, failedAttachments, done, lastSync, tokenVars>>

\* ---- GoogleScheduler.triggerSync(): all users, under the flag
TriggerSyncAll ==
    /\ runs["flagged"].pc = "idle"
    /\ IF isSyncing
       THEN UNCHANGED <<runs, isSyncing>>
       ELSE /\ isSyncing' = TRUE
            /\ runs' = [runs EXCEPT !["flagged"] =
                          [IdleRun EXCEPT !.pc = "accounts", !.kind = "all", !.flagged = TRUE]]
    /\ UNCHANGED <<mailbox, emails, attachments, failedAttachments, done, lastSync, tokenVars>>

\* ---- GoogleScheduler.triggerSync(userId): checks the flag, does not take it
TriggerSyncUser(u) ==
    /\ runs["direct"].pc = "idle"
    /\ IF isSyncing
       THEN UNCHANGED runs
       ELSE runs' = [runs EXCEPT !["direct"] =
                       [IdleRun EXCEPT !.pc = "token", !.kind = "user", !.todo = <<u>>]]
    /\ UNCHANGED <<mailbox, emails, attachments, failedAttachments, isSyncing, done, lastSync, tokenVars>>

\* ---- GoogleController.triggerSync (POST /google/sync): calls syncUserEmails directly
ControllerTriggerSync(u) ==
    /\ runs["direct"].pc = "idle"
    /\ runs' = [runs EXCEPT !["direct"] =
                  [IdleRun EXCEPT !.pc = "token", !.kind = "user", !.todo = <<u>>]]
    /\ UNCHANGED <<mailbox, emails, attachments, failedAttachments, isSyncing, done, lastSync, tokenVars>>

\* ---- syncAllUsers: the accounts query; nothing to do ends the run, and so
\*      does a query that throws (dbOk false): the caller's finally block runs
SyncAllUsers(s, dbOk) ==
    LET r == runs[s]
        ids == SeqOfSet({u \in Users : accounts[u].exists /\ ~accounts[u].needsReauth})
    IN /\ r.pc = "accounts"
       /\ IF ~dbOk \/ ids = <<>>
          THEN /\ runs' = [runs EXCEPT ![s] = IdleRun]
               /\ isSyncing' = FALSE
          ELSE /\ runs' = [runs EXCEPT ![s] = [r EXCEPT !.pc = "token", !.todo = ids]]
               /\ UNCHANGED isSyncing
       /\ UNCHANGED <<mailbox, emails, attachments, failedAttachments, done, lastSync, tokenVars>>

\* ---- syncUserEmails, up to the end of the list loop:
\*      token, latest stored message, query, list pages
\*      listOk: the provider answers the list requests (a rejected one throws)
SyncList(s, providerOk, expiresIn, stallAt, listOk) ==
    LET r == runs[s]
        u == Head(r.todo)
        t == getValidMailAccessToken(accounts[u], providerOk, expiresIn)
        listed == listPages(u, afterTimestamp(u), isFirstSync(u), None, NoPages, stallAt)
        all == listed.messages
        alone == \A o \in Slots \ {s} : ~Syncing(o, u)
        prev == IF alone THEN lastSync[u] ELSE NoLast
        r1 == [r EXCEPT !.after = afterTimestamp(u), !.requests = listed.requests,
                        !.all = all, !.newCount = 0, !.synced = 0, !.arrived = FALSE,
                        !.prevValid = prev.valid, !.prevClean = prev.clean,
                        !.prevStore = prev.store]
    IN /\ r.pc = "token"
       /\ accounts' = [accounts EXCEPT ![u] = t.acc]
       /\ UNCHANGED <<clock, tokenCall, refreshRun, mailbox, emails, attachments, failedAttachments>>
       /\ IF t.kind = "error" \/ ~listOk
          THEN AfterUser(s, r, ErrorResult(r), {})
          ELSE IF all = <<>>
          THEN AfterUser(s, r1, OkResult(r1, 0, StoredIds(u)), StoredIds(u))
          ELSE /\ runs' = [o \in Slots |->
                             IF o = s THEN [r1 EXCEPT !.pc = "diff"]
                             ELSE IF Syncing(o, u) THEN Interrupted(runs[o], FALSE)
                             ELSE runs[o]]
               /\ UNCHANGED <<isSyncing, done, lastSync>>

\* ---- syncUserEmails: existence lookup and the filter for new ids
SyncDiff(s) ==
    LET r == runs[s]
        u == Head(r.todo)
        existingIds == getExistingMessageIds(u, r.all)
        newMessages == FilterSeq(r.all, Range(r.all) \ existingIds)
        r1 == [r EXCEPT !.new = newMessages, !.newCount = Len(newMessages)]
    IN /\ r.pc = "diff"
       /\ UNCHANGED <<mailbox, emails, attachments, failedAttachments, tokenVars>>
       /\ IF newMessages = <<>>
          THEN AfterUser(s, r1, OkResult(r1, 0, StoredIds(u)), StoredIds(u))
          ELSE /\ runs' = [runs EXCEPT ![s] = [r1 EXCEPT !.pc = "save"]]
               /\ UNCHANGED <<isSyncing, done, lastSync>>

\* ---- syncUserEmails: one iteration of the loop over newMessages (fetchAndSaveEmail)
\*      a failed fetch or a rejected insert is caught and the loop goes on
\*      attOk: the attachments of the message whose download and insert succeed
SyncSave(s, fetchOk, attOk) ==
    LET r == runs[s]
        u == Head(r.todo)
        row == NewEmail(u, Head(r.new))
        out == fetchAndSaveEmail(row, fetchOk, attOk)
        saved == out.saved
        table == out.emails
        synced == IF saved THEN r.synced + 1 ELSE r.synced
        store == {e.messageId : e \in {x \in table : x.userId = u}}
        r1 == [r EXCEPT !.new = Tail(r.new), !.synced = synced]
    IN /\ r.pc = "save"
       /\ emails' = table
       /\ attachments' = out.attachments
       /\ failedAttachments' = failedAttachments \cup out.failed
       /\ UNCHANGED <<mailbox, tokenVars>>
       /\ IF r1.new = <<>>
          THEN AfterUser(s, r1, OkResult(r1, synced, store), store)
          ELSE /\ runs' = [runs EXCEPT ![s] = r1]
               /\ UNCHANGED <<isSyncing, done, lastSync>>

\* ------------------------------------------------------------------ merchant names
\* a string is the sequence of its characters; the empty string stands for an
\* absent (null, undefined) string as well: both are falsy
UpperCase == <<"A","B","C","D","E","F","G","H","I","J","K","L","M",
               "N","O","P","Q","R","S","T","U","V","W","X","Y","Z">>
LowerCase == <<"a","b","c","d","e","f","g","h","i","j","k","l","m",
               "n","o","p","q","r","s","t","u","v","w","x","y","z">>

toLowerCase(s) ==
    [i \in 1..Len(s) |->
        IF \E k \in 1..Len(UpperCase) : UpperCase[k] = s[i]
        THEN LowerCase[CHOOSE k \in 1..Len(UpperCase) : UpperCase[k] = s[i]]
        ELSE s[i]]

\* the class [,.()\[\]{}'"]
SpecialChars == {",", ".", "(", ")", "[", "]", "{", "}", "'", "\""}
\* the class \s
WhiteSpace == {" "}
\* the alternation (inc|llc|ltd|co|corp|corporation)
CompanySuffixes ==
    { <<"i","n","c">>, <<"l","l","c">>, <<"l","t","d">>, <<"c","o">>,
      <<"c","o","r","p">>, <<"c","o","r","p","o","r","a","t","i","o","n">> }

RECURSIVE removeChars(_, _)
\* String.prototype.replace(/[...]/g, '')
removeChars(s, class) ==
    IF s = <<>> THEN <<>>
    ELSE (IF Head(s) \in class THEN <<>> ELSE <<Head(s)>>) \o removeChars(Tail(s), class)

\* String.prototype.includes
includes(s, t) ==
    \E i \in 0..(Len(s) - Len(t)) : SubSeq(s, i + 1, i + Len(t)) = t

\* the match of /\s+(inc|llc|ltd|co|corp|corporation)\.?$/i starts at the
\* leftmost position from which white space, a suffix, an optional dot and the
\* end of the string follow
suffixMatchStarts(s) ==
    { i \in 1..Len(s) :
        \E k \in (i + 1)..Len(s), dot \in {0, 1} :
            /\ \A j \in i..(k - 1) : s[j] \in WhiteSpace
            /\ dot = 1 => s[Len(s)] = "."
            /\ k <= Len(s) - dot
            /\ toLowerCase(SubSeq(s, k, Len(s) - dot)) \in CompanySuffixes }

removeCompanySuffix(s) ==
    IF suffixMatchStarts(s) = {} THEN s
    ELSE LET i == CHOOSE x \in suffixMatchStarts(s) : \A y \in suffixMatchStarts(s) : x <= y
         IN SubSeq(s, 1, i - 1)

RECURSIVE removeParenthesised(_)
\* String.prototype.replace(/\s*\(.*?\)\s*/g, ' '): the leftmost "(" that has a
\* ")" after it, with the white space around the pair, becomes one blank
removeParenthesised(s) ==
    LET opens == { i \in 1..Len(s) : s[i] = "(" /\ \E j \in (i + 1)..Len(s) : s[j] = ")" }
    IN IF opens = {} THEN s
       ELSE LET o == CHOOSE x \in opens : \A y \in opens : x <= y
                c == CHOOSE x \in (o + 1)..Len(s) :
                        s[x] = ")" /\ \A y \in (o + 1)..(x - 1) : s[y] # ")"
                from == CHOOSE x \in 1..o :
                        /\ \A y \in x..(o - 1) : s[y] \in WhiteSpace
                        /\ x > 1 => s[x - 1] \notin WhiteSpace
                to == CHOOSE x \in c..Len(s) :
                        /\ \A y \in (c + 1)..x : s[y] \in WhiteSpace
                        /\ x < Len(s) => s[x + 1] \notin WhiteSpace
            IN SubSeq(s, 1, from - 1) \o <<" ">> \o removeParenthesised(SubSeq(s, to + 1, Len(s)))

RECURSIVE collapseWhiteSpace(_)
\* String.prototype.replace(/\s+/g, ' ')
collapseWhiteSpace(s) ==
    IF s = <<>> THEN <<>>
    ELSE IF Head(s) \in WhiteSpace
         THEN IF Len(s) > 1 /\ s[2] \in WhiteSpace
              THEN collapseWhiteSpace(Tail(s))
              ELSE <<" ">> \o collapseWhiteSpace(Tail(s))
         ELSE <<Head(s)>> \o collapseWhiteSpace(Tail(s))

RECURSIVE trimStart(_)
trimStart(s) ==
    IF s # <<>> /\ Head(s) \in WhiteSpace THEN trimStart(Tail(s)) ELSE s

RECURSIVE trimEnd(_)
trimEnd(s) ==
    IF s # <<>> /\ s[Len(s)] \in WhiteSpace THEN trimEnd(SubSeq(s, 1, Len(s) - 1)) ELSE s

trim(s) == trimEnd(trimStart(s))

normalizeMerchant(merchant) ==
    trim(collapseWhiteSpace(removeParenthesised(removeCompanySuffix(
        removeChars(toLowerCase(merchant), SpecialChars)))))

\* String.prototype.split(/\s+/)[0]
firstWord(s) ==
    IF \E i \in 1..Len(s) : s[i] \in WhiteSpace
    THEN SubSeq(s, 1, (CHOOSE i \in 1..Len(s) :
                          s[i] \in WhiteSpace /\ \A j \in 1..(i - 1) : s[j] \notin WhiteSpace) - 1)
    ELSE s

\* if (!a || !b) return true: an absent and an empty name are both falsy
isSimilarMerchant(a, b) ==
    IF a = <<>> \/ b = <<>> THEN TRUE
    ELSE LET normA == normalizeMerchant(a)
             normB == normalizeMerchant(b)
         IN \/ normA = normB
            \/ includes(normA, normB) \/ includes(normB, normA)
            \/ /\ firstWord(normA) # <<>> /\ firstWord(normB) # <<>>
               /\ Len(firstWord(normA)) >= 3
               /\ firstWord(normA) = firstWord(normB)

\* ------------------------------------------------------------------ payment reports
\* time scale of the stored dates: three months last ThreeMonthsMs
DayMs == 1100

reportOfEmail(table, emailId) == {r \in table : r.emailId = emailId}

emailById(emailId) == {e \in emails : e.id = emailId}

\* the owner of a report, through its email relation
ownerOf(r) ==
    IF emailById(r.emailId) = {} THEN None
    ELSE (CHOOSE e \in emailById(r.emailId) : TRUE).userId

\* Date.prototype.setHours(0, 0, 0, 0)
startOfDay(date) == (date \div DayMs) * DayMs

Abs(x) == IF x < 0 THEN 0 - x ELSE x

isSameDay(date1, date2, toleranceDays) ==
    IF date1 = None \/ date2 = None THEN TRUE
    ELSE Abs(startOfDay(date1) - startOfDay(date2)) <= toleranceDays * DayMs

\* amounts are in hundredths; Math.abs(a - b) > 0.01
isPotentialDuplicate(a, b) ==
    /\ isSameDay(a.paymentDate, b.paymentDate, 1)
    /\ ~(a.amount # 0 /\ b.amount # 0 /\ Abs(a.amount - b.amount) > 1)
    /\ isSimilarMerchant(a.merchant, b.merchant)

getDetailScore(report) ==
    (IF report.amount # 0 THEN 10 ELSE 0)
    + (IF report.merchant # <<>> THEN 5 ELSE 0)
    + (IF report.paymentDate # None THEN 5 ELSE 0)
    + (IF report.cardType # "" THEN 3 ELSE 0)
    + (IF report.currency # "" THEN 2 ELSE 0)
    + (IF report.paymentType # "" THEN 2 ELSE 0)
    + (IF report.category # "" THEN 2 ELSE 0)
    + (IF report.summaryLength > 20 THEN 1 ELSE 0)

RECURSIVE reduceBest(_, _)
reduceBest(best, rest) ==
    IF rest = <<>> THEN best
    ELSE reduceBest(IF getDetailScore(Head(rest)) > getDetailScore(best)
                    THEN Head(rest) ELSE best, Tail(rest))

\* the report the group was built around is taken as primary
selectFirst(group) == Head(group)

\* Array.prototype.reduce without an initial value
selectPrimaryReport(group) == reduceBest(Head(group), Tail(group))

\* order: { paymentDate: 'ASC', createdAt: 'ASC' }; ids grow with createdAt and
\* an absent date sorts last
before(a, b) ==
    IF a.paymentDate = b.paymentDate THEN a.id < b.id
    ELSE IF a.paymentDate = None THEN FALSE
    ELSE IF b.paymentDate = None THEN TRUE
    ELSE a.paymentDate < b.paymentDate

RECURSIVE sortReports(_)
sortReports(S) ==
    IF S = {} THEN <<>>
    ELSE LET m == CHOOSE x \in S : \A y \in S \ {x} : before(x, y)
         IN <<m>> \o sortReports(S \ {m})

RECURSIVE filterReports(_, _)
filterReports(s, keep) ==
    IF s = <<>> THEN <<>>
    ELSE (IF Head(s).id \in keep THEN <<Head(s)>> ELSE <<>>) \o filterReports(Tail(s), keep)

RECURSIVE collectDuplicates(_, _, _, _)
\* the inner loop of detectDuplicates: the later, unprocessed reports that match
collectDuplicates(report, userReports, j, processed) ==
    IF j > Len(userReports) THEN <<>>
    ELSE IF userReports[j].id \notin processed /\ isPotentialDuplicate(report, userReports[j])
         THEN <<userReports[j]>> \o collectDuplicates(report, userReports, j + 1, processed)
         ELSE collectDuplicates(report, userReports, j + 1, processed)

RECURSIVE detectLoop(_, _, _)
\* the outer loop of detectDuplicates
detectLoop(userReports, i, processed) ==
    IF i > Len(userReports) THEN <<>>
    ELSE IF userReports[i].id \in processed THEN detectLoop(userReports, i + 1, processed)
    ELSE LET report == userReports[i]
             duplicates == collectDuplicates(report, userReports, i + 1, processed)
             allInGroup == <<report>> \o duplicates
             primary == selectPrimaryReport(allInGroup)
             others == {r.id : r \in Range(allInGroup)} \ {primary.id}
         IN IF duplicates = <<>> THEN detectLoop(userReports, i + 1, processed)
            ELSE <<[primary |-> primary, duplicates |-> filterReports(allInGroup, others)]>>
                 \o detectLoop(userReports, i + 1,
                               processed \cup {r.id : r \in Range(allInGroup)})

detectDuplicates(table, userId) ==
    detectLoop(
        LET found == sortReports({r \in table : r.isPayment /\ ~r.isDuplicate})
        IN filterReports(found, {r.id : r \in {x \in table : ownerOf(x) = userId}}),
        1, {})

\* a property whose value is undefined
Undefined == 0 - 1

\* repository update(id, partial): a property that is undefined is left out of the SET
updateReport(table, id, isDuplicate, primaryReportId) ==
    { IF r.id = id
      THEN [r EXCEPT !.isDuplicate = isDuplicate,
                     !.primaryReportId =
                         IF primaryReportId = Undefined THEN @ ELSE primaryReportId]
      ELSE r : r \in table }

RECURSIVE markGroup(_, _, _)
markGroup(table, primary, duplicates) ==
    IF duplicates = <<>> THEN table
    ELSE markGroup(updateReport(table, Head(duplicates).id, TRUE, primary.id),
                   primary, Tail(duplicates))

RECURSIVE markGroups(_, _)
markGroups(table, groups) ==
    IF groups = <<>> THEN table
    ELSE markGroups(markGroup(table, Head(groups).primary, Head(groups).duplicates),
                    Tail(groups))

markDuplicates(table, userId) == markGroups(table, detectDuplicates(table, userId))

RECURSIVE resetReports(_, _)
resetReports(table, ids) ==
    IF ids = {} THEN table
    ELSE LET id == CHOOSE x \in ids : TRUE
         IN resetReports(updateReport(table, id, FALSE, Undefined), ids \ {id})

resetDuplicates(table, userId) ==
    resetReports(table, {r.id : r \in {x \in table : x.isDuplicate /\ ownerOf(x) = userId}})

\* repository remove(report): the row goes and, by onDelete: 'SET NULL', every
\* primaryReportId that referenced it becomes null
removeReport(table, id) ==
    { IF r.primaryReportId = id THEN [r EXCEPT !.primaryReportId = None] ELSE r :
        r \in {x \in table : x.id # id} }

\* ------------------------------------------------------------------ AnalysisEngine
\* PaymentInfo with every optional field absent
NoInfo ==
    [isPayment |-> FALSE, amount |-> 0, currency |-> "", merchant |-> <<>>,
     paymentDate |-> None, cardType |-> "", paymentType |-> "", category |-> "",
     summaryLength |-> Undefined]

\* what the chat completion call does: it throws (network, quota, a body that
\* is not JSON), it answers without content, or it answers with a JSON object
ClassifierError == [kind |-> "error", result |-> NoInfo]
EmptyCompletion == [kind |-> "empty", result |-> NoInfo]
Completion(result) == [kind |-> "json", result |-> result]

\* the lengths of the two fixed summaries
FailedSummaryLength == 5
MissingSummaryLength == 5

\* a failure of the call is swallowed and answered like an empty completion
analyzeSwallowsError(response) ==
    IF response.kind \in {"error", "empty"}
    THEN [threw |-> FALSE,
          analysis |-> [NoInfo EXCEPT !.summaryLength = FailedSummaryLength]]
    ELSE [threw |-> FALSE,
          analysis |-> [response.result EXCEPT !.summaryLength =
                           IF @ = Undefined THEN MissingSummaryLength ELSE @]]

analyzePaymentEmail(response) ==
    IF response.kind = "error" THEN [threw |-> TRUE, analysis |-> NoInfo]
    ELSE IF response.kind = "empty"
    THEN [threw |-> FALSE,
          analysis |-> [NoInfo EXCEPT !.summaryLength = FailedSummaryLength]]
    ELSE [threw |-> FALSE,
          analysis |-> [response.result EXCEPT !.summaryLength =
                           IF @ = Undefined THEN MissingSummaryLength ELSE @]]

\* every report is created as a payment
createAsPayment(id, email, analysis) ==
    [id |-> id,
     emailId |-> email.id,
     isPayment |-> TRUE,
     amount |-> IF analysis.isPayment THEN analysis.amount ELSE 0,
     currency |-> IF analysis.isPayment THEN analysis.currency ELSE "",
     merchant |-> IF analysis.isPayment THEN analysis.merchant ELSE <<>>,
     paymentDate |-> IF analysis.isPayment
                     THEN (IF analysis.paymentDate # None THEN analysis.paymentDate
                           ELSE email.receivedAt)
                     ELSE None,
     cardType |-> IF analysis.isPayment THEN analysis.cardType ELSE "",
     paymentType |-> IF analysis.isPayment THEN analysis.paymentType ELSE "",
     category |-> IF analysis.isPayment THEN analysis.category ELSE "",
     summaryLength |-> analysis.summaryLength,
     isDuplicate |-> FALSE,
     primaryReportId |-> None]

\* paymentReportRepo.create: the payment fields are kept for a payment only
createReport(id, email, analysis) ==
    [id |-> id,
     emailId |-> email.id,
     isPayment |-> analysis.isPayment,
     amount |-> IF analysis.isPayment THEN analysis.amount ELSE 0,
     currency |-> IF analysis.isPayment THEN analysis.currency ELSE "",
     merchant |-> IF analysis.isPayment THEN analysis.merchant ELSE <<>>,
     paymentDate |-> IF analysis.isPayment
                     THEN (IF analysis.paymentDate # None THEN analysis.paymentDate
                           ELSE email.receivedAt)
                     ELSE None,
     cardType |-> IF analysis.isPayment THEN analysis.cardType ELSE "",
     paymentType |-> IF analysis.isPayment THEN analysis.paymentType ELSE "",
     category |-> IF analysis.isPayment THEN analysis.category ELSE "",
     summaryLength |-> analysis.summaryLength,
     isDuplicate |-> FALSE,
     primaryReportId |-> None]

\* the unique index on payment_reports.emailId is missing
reportIndexDropped(table, row) == FALSE

\* @Index({ unique: true }) on emailId: an insert that would repeat it is rejected
reportUniqueViolation(table, row) == \E r \in table : r.emailId = row.emailId

\* the early return is never taken
neverReturnsExisting(force, paymentReport) == FALSE

\* the stored report is returned whatever force says
ignoresForce(force, paymentReport) == paymentReport # None

\* if (!force && email.paymentReport)
returnsExisting(force, paymentReport) == ~force /\ paymentReport # None

ConsumerSlots == {"consumer1", "consumer2"}
RunnerSlots == ConsumerSlots \cup {"api"}

\* the loop of a caller of analyzeEmail; its counters are only logged or
\* returned and are left out
\* batch, processed, payments, failed: batch.length and the counters of processQueue
\* paymentRecords: how many items of the batch came back with a record whose
\* isPayment is true
IdleRunner ==
    [kind |-> "idle", todo |-> <<>>, force |-> FALSE,
     batch |-> 0, processed |-> 0, payments |-> 0, failed |-> 0, paymentRecords |-> 0]

NoLog ==
    [slot |-> "none", batch |-> 0, processed |-> 0, payments |-> 0, failed |-> 0,
     paymentRecords |-> 0]

IdleCall ==
    [pc |-> "idle", emailId |-> None, force |-> FALSE, paymentReport |-> None,
     analysis |-> NoInfo, classified |-> FALSE, threw |-> FALSE, wrote |-> FALSE]

NoOutcome ==
    [slot |-> "none", kind |-> "none", emailId |-> None, force |-> FALSE,
     hadReport |-> None, report |-> None, classified |-> FALSE, threw |-> FALSE,
     wrote |-> FALSE]

\* analyzeEmail(emailId, force) entered: the findOne is under way
StartCall(emailId, force) == [IdleCall EXCEPT !.pc = "load", !.emailId = emailId, !.force = force]

Outcome(s, c, kind, report) ==
    [slot |-> s, kind |-> kind, emailId |-> c.emailId, force |-> c.force,
     hadReport |-> c.paymentReport, report |-> report, classified |-> c.classified,
     threw |-> c.threw, wrote |-> c.wrote]

\* analyzeEmail returns or throws to its caller's loop
\* processQueue, lines 97-108: the counters after one more item of the batch; a
\* returned result always carries a paymentReport
countItem(r, out) ==
    IF r.kind # "consumer" THEN r
    ELSE IF out.kind = "error" THEN [r EXCEPT !.failed = r.failed + 1]
    ELSE [r EXCEPT !.processed = r.processed + 1,
                   !.payments = IF out.report # None THEN r.payments + 1 ELSE r.payments,
                   !.paymentRecords =
                       IF \E x \in reports' : x.id = out.report /\ x.isPayment
                       THEN r.paymentRecords + 1 ELSE r.paymentRecords]

\* analyzeEmail returns or throws to its caller's loop
Return(s, out) ==
    LET r == runners[s]
        ok == out.kind # "error"
        counted == countItem(r, out)
        r1 == [counted EXCEPT !.todo = Tail(r.todo)]
    IN /\ analyzed' = out
       /\ failedOnce' = IF r.kind = "consumer" /\ ~ok
                        THEN failedOnce \cup {out.emailId} ELSE failedOnce
       /\ IF r1.todo = <<>>
          THEN /\ runners' = [runners EXCEPT ![s] = IdleRunner]
               /\ calls' = [calls EXCEPT ![s] = IdleCall]
               /\ isProcessing' = IF r.kind = "consumer" THEN FALSE ELSE isProcessing
               /\ consumerLog' = IF r.kind = "consumer"
                                 THEN [slot |-> s, batch |-> r1.batch,
                                       processed |-> r1.processed,
                                       payments |-> r1.payments, failed |-> r1.failed,
                                       paymentRecords |-> r1.paymentRecords]
                                 ELSE consumerLog
          ELSE /\ runners' = [runners EXCEPT ![s] = r1]
               /\ calls' = [calls EXCEPT ![s] = StartCall(Head(r1.todo), r1.force)]
               /\ UNCHANGED <<isProcessing, consumerLog>>

\* analyzeEmail, lines 28-42: load the email with its report; throw when the
\* email is gone, return the stored report when there is one and force is off
AnalyzeLoad(s) ==
    LET c == calls[s]
        found == reportOfEmail(reports, c.emailId)
    IN /\ c.pc = "load"
       /\ UNCHANGED <<reports, nextReportId>>
       /\ IF emailById(c.emailId) = {}
          THEN Return(s, Outcome(s, c, "error", None))
          ELSE \E paymentReport \in IF found = {} THEN {None} ELSE {r.id : r \in found} :
                  LET c1 == [c EXCEPT !.paymentReport = paymentReport]
                  IN IF returnsExisting(c.force, paymentReport)
                     THEN Return(s, Outcome(s, c1, "existing", paymentReport))
                     ELSE /\ calls' = [calls EXCEPT ![s] = [c1 EXCEPT !.pc = "classify"]]
                          /\ UNCHANGED <<runners, analyzed, consumerLog, isProcessing, failedOnce>>

\* analyzeEmail, lines 44-54: collect the files and ask the classifier
AnalyzeClassify(s, response) ==
    LET c == calls[s]
        answer == analyzePaymentEmail(response)
        c1 == [c EXCEPT !.classified = TRUE, !.threw = (response.kind = "error")]
    IN /\ c.pc = "classify"
       /\ UNCHANGED <<reports, nextReportId>>
       /\ IF answer.threw
          THEN Return(s, Outcome(s, c1, "error", None))
          ELSE /\ calls' = [calls EXCEPT ![s] =
                               [c1 EXCEPT !.analysis = answer.analysis,
                                          !.pc = IF c.paymentReport # None
                                                 THEN "remove" ELSE "save"]]
               /\ UNCHANGED <<runners, analyzed, consumerLog, isProcessing, failedOnce>>

\* analyzeEmail, lines 56-59: delete the report that was loaded
AnalyzeRemove(s) ==
    LET c == calls[s]
    IN /\ c.pc = "remove"
       /\ reports' = removeReport(reports, c.paymentReport)
       /\ calls' = [calls EXCEPT ![s] = [c EXCEPT !.pc = "save", !.wrote = TRUE]]
       /\ UNCHANGED <<nextReportId, runners, analyzed, consumerLog, isProcessing, failedOnce>>

\* analyzeEmail, lines 61-89: build and insert the report
AnalyzeSave(s) ==
    LET c == calls[s]
        email == CHOOSE e \in emailById(c.emailId) : TRUE
        row == createReport(nextReportId, email, c.analysis)
    IN /\ c.pc = "save"
       /\ IF reportUniqueViolation(reports, row)
          THEN /\ UNCHANGED <<reports, nextReportId>>
               /\ Return(s, Outcome(s, c, "error", None))
          ELSE /\ reports' = reports \cup {row}
               /\ nextReportId' = nextReportId + 1
               /\ Return(s, Outcome(s, [c EXCEPT !.wrote = TRUE], "ok", row.id))

RECURSIVE newestEmailsFirst(_)
\* orderBy('email.receivedAt', 'DESC'): every order the database may return the
\* rows in; rows with equal receivedAt come in any order
\* (rows of pairwise different receivedAt have one order: each row at the place
\* after the rows newer than it)
newestEmailsFirst(S) ==
    IF \A x, y \in S : x.receivedAt = y.receivedAt => x = y
    THEN {[i \in 1..Cardinality(S) |->
             CHOOSE e \in S : Cardinality({x \in S : x.receivedAt > e.receivedAt}) = i - 1]}
    ELSE UNION { {<<m>> \o rest : rest \in newestEmailsFirst(S \ {m})} :
                 m \in {x \in S : \A y \in S : x.receivedAt >= y.receivedAt} }

\* leftJoin(paymentReport) ... where('report.id IS NULL')
unanalyzed(S) == {e \in S : reportOfEmail(reports, e.id) = {}}

\* the possible results of the query
getUnanalyzedEmails(limit) ==
    {Take(list, limit) : list \in newestEmailsFirst(unanalyzed(emails))}

\* the possible results of the query of analyzeUserEmails; a limit of 0 is an
\* absent limit
userEmailsToAnalyze(userId, limit, force) ==
    LET mine == {e \in emails : e.userId = userId}
        listed == newestEmailsFirst(IF force THEN mine ELSE unanalyzed(mine))
    IN {IF limit = 0 THEN list ELSE Take(list, limit) : list \in listed}

emailIds(list) == [i \in 1..Len(list) |-> list[i].id]

\* highest report id a forced re-analysis may still start from
MaxReportId == 4
\* limit values of POST analyze-batch; DefaultBatchLimit when the query has none
DefaultBatchLimit == 10
LimitChoices == {1, DefaultBatchLimit}

\* POST email-analysis/emails/:id/analyze
ControllerAnalyzeEmail(emailId) ==
    /\ runners["api"].kind = "idle"
    /\ runners' = [runners EXCEPT !["api"] = [IdleRunner EXCEPT !.kind = "single",
                                                               !.todo = <<emailId>>]]
    /\ calls' = [calls EXCEPT !["api"] = StartCall(emailId, FALSE)]
    /\ UNCHANGED <<reports, nextReportId, analyzed, consumerLog, isProcessing, failedOnce>>

\* POST email-analysis/analyze-batch -> analyzeUserEmails, up to its loop
AnalyzeUserEmails(userId, limit, force) ==
    \E list \in userEmailsToAnalyze(userId, limit, force) :
    LET found == emailIds(list)
    IN /\ runners["api"].kind = "idle"
       /\ found # <<>>
       /\ force => nextReportId <= MaxReportId
       /\ runners' = [runners EXCEPT !["api"] = [IdleRunner EXCEPT !.kind = "batch",
                                                                  !.todo = found,
                                                                  !.force = force]]
       /\ calls' = [calls EXCEPT !["api"] = StartCall(Head(found), force)]
       /\ UNCHANGED <<reports, nextReportId, analyzed, consumerLog, isProcessing, failedOnce>>

\* ------------------------------------------------------------------ DuplicateDetector
MarkDuplicates(userId) ==
    /\ reports' = markDuplicates(reports, userId)
    /\ UNCHANGED <<nextReportId, runners, calls, analyzed, consumerLog, isProcessing, failedOnce>>

ResetDuplicates(userId) ==
    /\ reports' = resetDuplicates(reports, userId)
    /\ UNCHANGED <<nextReportId, runners, calls, analyzed, consumerLog, isProcessing, failedOnce>>

\* ------------------------------------------------------------------ AnalysisQueue
Instances == 1..2
BatchSize == 5
EnqueueLimit == 50

IdleProducer == [pc |-> "idle", found |-> <<>>]
NoTrigger == [actor |-> "none", outcome |-> "none"]

\* a cron tick and the manual endpoint run the same method
Trigger(actor, manual, outcome) == [actor |-> actor, outcome |-> outcome]

\* the in-flight check of the producer is missing
enqueuingUnchecked(flag) == FALSE

\* if (this.isEnqueuing) return
alreadyEnqueuing(flag) == flag

\* if (this.isProcessing) return
alreadyProcessing(flag) == flag

queueItem(email) == [emailId |-> email.id, userId |-> email.userId]

mapItems(list) == [k \in 1..Len(list) |-> queueItem(list[k])]

\* nothing is filtered out
keepsQueued(list, existingIds) == list

\* emailsToEnqueue.filter(e => !existingIds.has(e.id))
newEmails(list, existingIds) == SelectSeq(list, LAMBDA e : e.id \notin existingIds)

\* enqueueUnanalyzedEmails (cron every 10 seconds, or POST queue/enqueue), up to
\* the await of getUnanalyzedEmails
EnqueueUnanalyzedEmails(manual) ==
    /\ IF alreadyEnqueuing(isEnqueuing)
       THEN /\ lastTrigger' = Trigger("producer", manual, "skipped")
            /\ UNCHANGED <<isEnqueuing, producers>>
       ELSE \E i \in Instances :
               /\ producers[i].pc = "idle"
               /\ \A j \in Instances : j < i => producers[j].pc # "idle"
               /\ isEnqueuing' = TRUE
               /\ producers' = [producers EXCEPT ![i] = [pc |-> "query", found |-> <<>>]]
               /\ lastTrigger' = Trigger("producer", manual, "started")
    /\ UNCHANGED <<queue, isProcessing, failedOnce, analysisVars>>

\* the query of getUnanalyzedEmails runs; when it fails the catch and the
\* finally block end the run
EnqueueQuery(i, dbOk) ==
    /\ producers[i].pc = "query"
    /\ IF dbOk
       THEN /\ \E found \in getUnanalyzedEmails(EnqueueLimit) :
                  producers' = [producers EXCEPT ![i] = [pc |-> "push", found |-> found]]
            /\ UNCHANGED isEnqueuing
       ELSE /\ producers' = [producers EXCEPT ![i] = IdleProducer]
            /\ isEnqueuing' = FALSE
    /\ UNCHANGED <<queue, isProcessing, lastTrigger, failedOnce, analysisVars>>

\* the rest of enqueueUnanalyzedEmails: filter, push, finally
EnqueuePush(i) ==
    LET existingIds == {queue[k].emailId : k \in 1..Len(queue)}
    IN /\ producers[i].pc = "push"
       /\ queue' = queue \o mapItems(newEmails(producers[i].found, existingIds))
       /\ producers' = [producers EXCEPT ![i] = IdleProducer]
       /\ isEnqueuing' = FALSE
       /\ UNCHANGED <<isProcessing, lastTrigger, failedOnce, analysisVars>>

\* the items are taken from the tail of the queue
spliceTail(q, n) ==
    [removed |-> Drop(q, Len(q) - Min(n, Len(q))), left |-> Take(q, Len(q) - Min(n, Len(q)))]

\* this.queue.splice(0, n): the items removed and the array left behind
splice(q, n) == [removed |-> Take(q, n), left |-> Drop(q, n)]

\* processQueue (cron every 30 seconds, or POST queue/process), up to the first
\* analyzeEmail
ProcessQueue(manual) ==
    /\ IF alreadyProcessing(isProcessing)
       THEN /\ lastTrigger' = Trigger("consumer", manual, "skipped")
            /\ UNCHANGED <<queue, isProcessing, runners, calls>>
       ELSE IF queue = <<>>
       THEN /\ lastTrigger' = Trigger("consumer", manual, "empty")
            /\ UNCHANGED <<queue, isProcessing, runners, calls>>
       ELSE \E s \in ConsumerSlots :
               LET batch == splice(queue, BatchSize).removed
               IN /\ runners[s].kind = "idle"
                  /\ s = "consumer2" => runners["consumer1"].kind # "idle"
                  /\ isProcessing' = TRUE
                  /\ queue' = splice(queue, BatchSize).left
                  /\ runners' = [runners EXCEPT ![s] =
                         [IdleRunner EXCEPT !.kind = "consumer",
                                            !.batch = Len(batch),
                                            !.todo = [k \in 1..Len(batch) |-> batch[k].emailId]]]
                  /\ calls' = [calls EXCEPT ![s] = StartCall(batch[1].emailId, FALSE)]
                  /\ lastTrigger' = Trigger("consumer", manual, "started")
    /\ UNCHANGED <<isEnqueuing, producers, failedOnce, reports, nextReportId, analyzed, consumerLog>>

\* ------------------------------------------------------------------ message parser
\* body data of a part as the provider sends it (URL-safe base64)
HiData == <<"S","G","k">>
QuestionData == <<"P","z","8","_">>
BodyData == {HiData, QuestionData}

\* String.prototype.replace(/-/g, '+').replace(/_/g, '/')
toBase64(data) ==
    [i \in 1..Len(data) |->
        IF data[i] = "-" THEN "+" ELSE IF data[i] = "_" THEN "/" ELSE data[i]]

\* Buffer.from(base64, 'base64').toString('utf-8')
fromBase64(base64) ==
    IF base64 = <<"S","G","k">> THEN <<"H","i">>
    ELSE IF base64 = <<"P","z","8","/">> THEN <<"?","?","?">>
    ELSE <<>>

decodeBase64Url(data) == fromBase64(toBase64(data))

\* a part of the payload: body.data is empty and body.attachmentId None when absent,
\* filename is FALSE when absent or empty, inline stands for a Content-ID header
\* or an inline Content-Disposition
Part(mimeType, data, attachmentId, filename, inline, parts) ==
    [mimeType |-> mimeType, data |-> data, attachmentId |-> attachmentId,
     filename |-> filename, inline |-> inline, parts |-> parts]

BodyPart(mimeType, data) == Part(mimeType, data, None, FALSE, FALSE, <<>>)

\* the first html part wins
firstHtmlBody(htmlBody, part) ==
    IF part.mimeType = "text/html" /\ part.data # <<>> /\ htmlBody = <<>>
    THEN decodeBase64Url(part.data)
    ELSE htmlBody

\* if (part.mimeType === 'text/plain' && part.body?.data && !textBody)
nextTextBody(textBody, part) ==
    IF part.mimeType = "text/plain" /\ part.data # <<>> /\ textBody = <<>>
    THEN decodeBase64Url(part.data)
    ELSE textBody

\* if (part.mimeType === 'text/html' && part.body?.data)
nextHtmlBody(htmlBody, part) ==
    IF part.mimeType = "text/html" /\ part.data # <<>>
    THEN decodeBase64Url(part.data)
    ELSE htmlBody

isImagePart(part) ==
    part.mimeType \in {"image/png"} /\ part.attachmentId # None

\* the attachment branches of extractParts
nextAttachments(found, part) ==
    IF isImagePart(part)
    THEN (IF part.inline THEN found ELSE Append(found, part.attachmentId))
    ELSE IF part.filename /\ part.attachmentId # None
    THEN Append(found, part.attachmentId)
    ELSE found

nextInlineImages(inlineImages, part) ==
    IF isImagePart(part) /\ part.inline
    THEN Append(inlineImages, part.attachmentId)
    ELSE inlineImages

RECURSIVE extractParts(_, _)
\* extractParts: acc = [body, htmlBody, attachments, inlineImages]; a part is
\* looked at before its own parts, and those before the part that follows it
extractParts(parts, acc) ==
    IF parts = <<>> THEN acc
    ELSE LET part == Head(parts)
             own == [body |-> nextTextBody(acc.body, part),
                     htmlBody |-> nextHtmlBody(acc.htmlBody, part),
                     attachments |-> nextAttachments(acc.attachments, part),
                     inlineImages |-> nextInlineImages(acc.inlineImages, part)]
             inner == IF part.parts # <<>> THEN extractParts(part.parts, own) ELSE own
         IN extractParts(Tail(parts), inner)

\* parseGmailMessage: [body, htmlBody, attachments, inlineImages]
parseGmailMessage(payload) ==
    LET empty == [body |-> <<>>, htmlBody |-> <<>>, attachments |-> <<>>,
                  inlineImages |-> <<>>]
        top == IF payload.data # <<>>
               THEN IF payload.mimeType = "text/html"
                    THEN [empty EXCEPT !.htmlBody = decodeBase64Url(payload.data)]
                    ELSE [empty EXCEPT !.body = decodeBase64Url(payload.data)]
               ELSE empty
    IN IF payload.parts # <<>> THEN extractParts(payload.parts, top) ELSE top

\* ---- payloads: leaves, one level of multipart containers below the payload
MaxParts == 2
MaxLeafParts == 3

LeafParts ==
    {BodyPart(m, data) : m \in {"text/plain", "text/html"}, data \in BodyData \cup {<<>>}}
    \cup {Part("image/png", <<>>, 1, TRUE, TRUE, <<>>),
          Part("application/pdf", <<>>, 2, TRUE, FALSE, <<>>)}

Multipart(parts) == Part("multipart/alternative", <<>>, None, FALSE, FALSE, parts)

Payloads ==
    {BodyPart(m, data) : m \in {"text/plain", "text/html"}, data \in BodyData}
    \cup {Multipart(parts) : parts \in SeqsUpTo(LeafParts, MaxLeafParts) \ {<<>>}}
    \cup {Multipart(parts) :
            parts \in SeqsUpTo(LeafParts \cup {Multipart(inner) :
                                                inner \in [1..MaxParts -> LeafParts]},
                               MaxParts) \ {<<>>}}

NoParse ==
    [stage |-> "none", payload |-> BodyPart("text/plain", <<>>), body |-> <<>>,
     htmlBody |-> <<>>, attachments |-> <<>>, inlineImages |-> <<>>]

\* one parseGmailMessage call (fetchAndSaveEmail, on the fetched message)
ParseGmailMessage(payload) ==
    LET out == parseGmailMessage(payload)
    IN /\ parsed.stage = "none"
       /\ parsed' = [stage |-> "parsed", payload |-> payload, body |-> out.body,
                     htmlBody |-> out.htmlBody, attachments |-> out.attachments,
                     inlineImages |-> out.inlineImages]
       /\ UNCHANGED collected

\* ------------------------------------------------------------------ EvidenceCollector
\* limits of collectFiles and downloadImageAsBase64, and of the classifier's request
PdfTake == 5
PdfLimit == 10485760
ImageLimit == 5242880
TinyBytes == 1024
MinDimension == 200
FileCap == 5

\* String.prototype.startsWith
startsWith(s, t) == Len(s) >= Len(t) /\ SubSeq(s, 1, Len(t)) = t

HttpScheme == <<"h","t","t","p",":","/","/">>
HttpsScheme == <<"h","t","t","p","s",":","/","/">>

trackingPatterns ==
    { <<"p","i","x","e","l">>,
      <<"t","r","a","c","k">>,
      <<"b","e","a","c","o","n">>,
      <<"a","n","a","l","y","t","i","c","s">>,
      <<"o","p","e","n",".","g","i","f">>,
      <<"1","x","1">>,
      <<"s","p","a","c","e","r">>,
      <<"b","l","a","n","k">>,
      <<"m","a","i","l","t","r","a","c","k">>,
      <<"e","m","a","i","l","-","o","p","e","n">>,
      <<"r","e","a","d","-","r","e","c","e","i","p","t">> }

imageExtensions ==
    { <<".","j","p","g">>, <<".","j","p","e","g">>, <<".","p","n","g">>, <<".","g","i","f">>, <<".","w","e","b","p">>, <<".","b","m","p">> }

\* the tracking patterns are not looked at
extensionOnly(url) ==
    LET lowerUrl == toLowerCase(url)
    IN \/ \E ext \in imageExtensions : includes(lowerUrl, ext)
       \/ includes(lowerUrl, <<"/","i","m","a","g","e">>)
       \/ includes(lowerUrl, <<"/","i","m","g">>)
       \/ includes(lowerUrl, <<"/","p","h","o","t","o">>)

isLikelyContentImage(url) ==
    LET lowerUrl == toLowerCase(url)
    IN IF \E pattern \in trackingPatterns : includes(lowerUrl, pattern)
       THEN FALSE
       ELSE \/ \E ext \in imageExtensions : includes(lowerUrl, ext)
            \/ includes(lowerUrl, <<"/","i","m","a","g","e">>)
            \/ includes(lowerUrl, <<"/","i","m","g">>)
            \/ includes(lowerUrl, <<"/","p","h","o","t","o">>)

\* the test of collectFiles before a download: scheme, then the URL pre-filter
downloadable(url) ==
    /\ startsWith(url, HttpScheme) \/ startsWith(url, HttpsScheme)
    /\ isLikelyContentImage(url)

\* an image is dropped only when both sides are below the minimum
tooSmallBoth(width, height) == width < MinDimension /\ height < MinDimension

\* dimensions.width < 200 || dimensions.height < 200
tooSmall(width, height) == width < MinDimension \/ height < MinDimension

\* the size test on image data: imageSize may throw or leave a side undefined
\* (0 here); the image is dropped only when both sides are known and one is too small
skippedAsSmall(img) ==
    /\ ~img.sizeThrows
    /\ img.width # 0 /\ img.height # 0
    /\ tooSmall(img.width, img.height)

\* downloadImageAsBase64: TRUE when a FileData is returned, FALSE for null
downloadImageAsBase64(resp) ==
    /\ resp.ok
    /\ resp.image
    /\ resp.bytes >= TinyBytes
    /\ resp.bytes <= ImageLimit
    /\ ~skippedAsSmall(resp)

RECURSIVE dedupe(_, _)
\* extractImageUrlsFromHtml: the src values of the img tags, each once, in order
dedupe(srcs, seen) ==
    IF srcs = <<>> THEN <<>>
    ELSE IF Head(srcs) \in seen THEN dedupe(Tail(srcs), seen)
    ELSE <<Head(srcs)>> \o dedupe(Tail(srcs), seen \cup {Head(srcs)})

extractImageUrlsFromHtml(htmlBody) == dedupe(htmlBody, {})

\* step 1 of collectFiles: the pdf attachments found (take: 5), without the large ones
pdfFiles(pdfRows) ==
    LET found == Take(pdfRows, PdfTake)
        kept == {i \in 1..Len(found) : found[i].bytes <= PdfLimit}
    IN [i \in 1..Cardinality(kept) |->
          [from |-> "pdf",
           ref |-> CHOOSE k \in kept : Cardinality({j \in kept : j < k}) = i - 1]]

RECURSIVE urlFiles(_, _, _)
\* step 2 of collectFiles: [files, downloads] of the loop over the extracted URLs;
\* responses[i] is what the server of urls[i] answers
urlFiles(urls, responses, i) ==
    IF i > Len(urls) THEN [files |-> <<>>, downloads |-> <<>>]
    ELSE LET rest == urlFiles(urls, responses, i + 1)
         IN IF ~downloadable(urls[i]) THEN rest
            ELSE [files |-> (IF downloadImageAsBase64(responses[i])
                             THEN <<[from |-> "url", ref |-> i]>> ELSE <<>>) \o rest.files,
                  downloads |-> <<[url |-> urls[i], resp |-> responses[i]]>>
                                   \o rest.downloads]

\* step 3 of collectFiles: TRUE when the inline attachment is pushed
inlineKept(att) ==
    /\ att.image
    /\ att.bytes <= ImageLimit
    /\ ~skippedAsSmall(att)

inlineFiles(inlineRows) ==
    LET kept == {i \in 1..Len(inlineRows) : inlineKept(inlineRows[i])}
    IN [i \in 1..Cardinality(kept) |->
          [from |-> "inline",
           ref |-> CHOOSE k \in kept : Cardinality({j \in kept : j < k}) = i - 1]]

\* what analyzePaymentEmail hands to the classifier: email.files.slice(0, 5)
classifierFiles(files) == Take(files, FileCap)

\* ---- the material of a message
MaxPdfRows == 6
MaxImgTags == 2
MaxInlineRows == 1

ReceiptPng == <<"h","t","t","p","s",":","/","/","a",".","i","o","/","i","m","g","/","r",".","p","n","g">>
TrackingPixelGif == <<"h","t","t","p","s",":","/","/","a",".","i","o","/","t","r","a","c","k","i","n","g","-","p","i","x","e","l",".","g","i","f">>
CidLogo == <<"c","i","d",":","l","o","g","o",".","p","n","g">>
PlainLink == <<"h","t","t","p","s",":","/","/","a",".","i","o","/","r","e","c","e","i","p","t">>
PhotoLink == <<"h","t","t","p",":","/","/","a",".","i","o","/","p","h","o","t","o","/","1">>
UpperCaseJpg == <<"H","T","T","P","S",":","/","/","A",".","I","O","/","B",".","J","P","G">>
ImgSrcs == {ReceiptPng, TrackingPixelGif, CidLogo, PlainLink, PhotoLink, UpperCaseJpg}

Image(bytes, width, height, sizeThrows) ==
    [ok |-> TRUE, image |-> TRUE, bytes |-> bytes, width |-> width, height |-> height,
     sizeThrows |-> sizeThrows]

\* answers of an image server
Responses ==
    { Image(2000, 300, 300, FALSE), Image(2000, 150, 150, FALSE),
      Image(2000, 300, 150, FALSE), Image(2000, 200, 200, FALSE),
      Image(2000, 0, 0, TRUE), Image(500, 300, 300, FALSE),
      Image(6000000, 300, 300, FALSE),
      [Image(2000, 300, 300, FALSE) EXCEPT !.ok = FALSE],
      [Image(2000, 300, 300, FALSE) EXCEPT !.image = FALSE] }

\* the server of a URL that is not downloaded is never asked
Unasked == [Image(0, 0, 0, FALSE) EXCEPT !.ok = FALSE]

\* inline attachment rows
InlineRows ==
    { Image(2000, 300, 300, FALSE), Image(2000, 150, 150, FALSE),
      Image(2000, 0, 0, TRUE), Image(6000000, 300, 300, FALSE),
      [Image(2000, 300, 300, FALSE) EXCEPT !.image = FALSE] }

NoCollect ==
    [stage |-> "none", pdfRows |-> <<>>, htmlBody |-> <<>>, inlineRows |-> <<>>,
     files |-> <<>>, downloads |-> <<>>, urls |-> <<>>]

\* ---- collectFiles (analyzeEmail, before the classifier is asked), one action per
\*      awaited step
\* step 1: pdfCount pdf attachments are stored, the first of them large when largePdf
CollectPdfs(pdfCount, largePdf) ==
    LET pdfRows == [i \in 1..pdfCount |->
                      [bytes |-> IF i = 1 /\ largePdf THEN PdfLimit + 1 ELSE 2000]]
    IN /\ collected.stage = "none"
       /\ collected' = [collected EXCEPT !.stage = "pdfs", !.pdfRows = pdfRows,
                                         !.files = pdfFiles(pdfRows)]
       /\ UNCHANGED parsed

\* step 2: the images of the html body are downloaded one after the other
CollectUrlImages(htmlBody, responses) ==
    LET urls == extractImageUrlsFromHtml(htmlBody)
        out == urlFiles(urls, responses, 1)
    IN /\ collected.stage = "pdfs"
       /\ collected' = [collected EXCEPT !.stage = "urls", !.htmlBody = htmlBody,
                                         !.urls = urls,
                                         !.files = @ \o out.files,
                                         !.downloads = out.downloads]
       /\ UNCHANGED parsed

\* step 3: the inline attachments; the files are returned
CollectInlineImages(inlineRows) ==
    /\ collected.stage = "urls"
    /\ collected' = [collected EXCEPT !.stage = "returned", !.inlineRows = inlineRows,
                                      !.files = @ \o inlineFiles(inlineRows)]
    /\ UNCHANGED parsed

\* ------------------------------------------------------------------ specifications
\* the mail accounts once every user has authorised: the first user's token
\* response carried expires_in, the others' did not (their token is refreshed
\* on every use)
Authorised == [u \in Users |-> upsertMailAccount(NoAccount, TRUE, IF u = 1 THEN 90 ELSE 0)]

\* nothing analysed, nothing queued, no call in progress
InitAnalysis ==
    /\ reports = {}
    /\ nextReportId = 1
    /\ queue = <<>>
    /\ isEnqueuing = FALSE
    /\ isProcessing = FALSE
    /\ producers = [i \in Instances |-> IdleProducer]
    /\ runners = [s \in RunnerSlots |-> IdleRunner]
    /\ calls = [s \in RunnerSlots |-> IdleCall]
    /\ analyzed = NoOutcome
    /\ consumerLog = NoLog
    /\ lastTrigger = NoTrigger
    /\ failedOnce = {}

Init ==
    /\ clock = 0
    /\ accounts = Authorised
    /\ tokenCall = NoCall
    /\ refreshRun = NoRefreshRun
    /\ collected = NoCollect
    /\ parsed = NoParse
    /\ mailbox = [u \in Users |-> {}]
    /\ emails = {}
    /\ attachments = {}
    /\ failedAttachments = {}
    /\ isSyncing = FALSE
    /\ runs = [s \in Slots |-> IdleRun]
    /\ done = NoResult
    /\ lastSync = [u \in Users |-> NoLast]
    /\ InitAnalysis

NextSync ==
    \/ \E u \in Users, m \in MsgIds : Arrive(u, m) /\ UNCHANGED <<queueVars, analysisVars, contentVars>>
    \/ HandleEmailSync /\ UNCHANGED <<queueVars, analysisVars, contentVars>>
    \/ TriggerSyncAll /\ UNCHANGED <<queueVars, analysisVars, contentVars>>
    \/ \E u \in Users : TriggerSyncUser(u) /\ UNCHANGED <<queueVars, analysisVars, contentVars>>
    \/ \E u \in Users : ControllerTriggerSync(u) /\ UNCHANGED <<queueVars, analysisVars, contentVars>>
    \/ \E s \in Slots, dbOk \in BOOLEAN :
          SyncAllUsers(s, dbOk) /\ UNCHANGED <<queueVars, analysisVars, contentVars>>
    \/ \E s \in Slots, ok \in BOOLEAN, x \in ExpiresInChoices, listOk \in BOOLEAN :
          SyncList(s, ok, x, None, listOk) /\ UNCHANGED <<queueVars, analysisVars, contentVars>>
    \/ \E s \in Slots : SyncDiff(s) /\ UNCHANGED <<queueVars, analysisVars, contentVars>>
    \/ \E s \in Slots, ok \in BOOLEAN :
          SyncSave(s, ok, 1..MaxAttachments) /\ UNCHANGED <<queueVars, analysisVars, contentVars>>

SpecSync == Init /\ [][NextSync]_vars

NextToken ==
    \/ Tick /\ UNCHANGED <<syncVars, queueVars, analysisVars, contentVars>>
    \/ \E u \in Users, h \in BOOLEAN, x \in ExpiresInChoices :
          OAuthCallback(u, h, x) /\ UNCHANGED <<syncVars, queueVars, analysisVars, contentVars>>
    \/ \E u \in Users, ok \in BOOLEAN, x \in ExpiresInChoices :
          GetToken(u, ok, x) /\ UNCHANGED <<syncVars, queueVars, analysisVars, contentVars>>

\* an empty database: no user has authorised yet
InitToken ==
    /\ clock = 0
    /\ accounts = [u \in Users |-> NoAccount]
    /\ tokenCall = NoCall
    /\ refreshRun = NoRefreshRun
    /\ collected = NoCollect
    /\ parsed = NoParse
    /\ mailbox = [u \in Users |-> {}]
    /\ emails = {}
    /\ attachments = {}
    /\ failedAttachments = {}
    /\ isSyncing = FALSE
    /\ runs = [s \in Slots |-> IdleRun]
    /\ done = NoResult
    /\ lastSync = [u \in Users |-> NoLast]
    /\ InitAnalysis

SpecToken == InitToken /\ [][NextToken]_vars

\* ---- the token of the first user alone; the provider also issues five-minute
\* tokens (expires_in = 300)
NextExpiry ==
    \/ Tick /\ UNCHANGED <<syncVars, queueVars, analysisVars, contentVars>>
    \/ \E h \in BOOLEAN, x \in ExpiresInChoices \cup {300} :
          OAuthCallback(1, h, x) /\ UNCHANGED <<syncVars, queueVars, analysisVars, contentVars>>
    \/ \E ok \in BOOLEAN, x \in ExpiresInChoices \cup {300} :
          GetToken(1, ok, x) /\ UNCHANGED <<syncVars, queueVars, analysisVars, contentVars>>

SpecExpiry == InitToken /\ [][NextExpiry]_vars

\* ---- the daily token refresh next to authorisations, at one instant, on a database
\* where each user may already have authorised, with or without a refresh token
InitRefreshAll ==
    /\ clock = 0
    /\ \E A \in SUBSET Users, R \in SUBSET Users :
          accounts = [u \in Users |->
                        IF u \in A
                        THEN [exists |-> TRUE, accessToken |-> 0,
                              refreshToken |-> IF u \in R THEN 1 ELSE None,
                              expiresAt |-> BaseMs, needsReauth |-> FALSE]
                        ELSE NoAccount]
    /\ tokenCall = NoCall
    /\ refreshRun = NoRefreshRun
    /\ collected = NoCollect
    /\ parsed = NoParse
    /\ mailbox = [u \in Users |-> {}]
    /\ emails = {}
    /\ attachments = {}
    /\ failedAttachments = {}
    /\ isSyncing = FALSE
    /\ runs = [s \in Slots |-> IdleRun]
    /\ done = NoResult
    /\ lastSync = [u \in Users |-> NoLast]
    /\ InitAnalysis

NextRefreshAll ==
    \/ \E u \in Users, h \in BOOLEAN, x \in ExpiresInChoices :
          OAuthCallback(u, h, x) /\ UNCHANGED <<syncVars, queueVars, analysisVars, contentVars>>
    \/ RefreshAllFind /\ UNCHANGED <<syncVars, queueVars, analysisVars, contentVars>>
    \/ \E ok \in BOOLEAN, x \in ExpiresInChoices :
          RefreshAllStep(ok, x) /\ UNCHANGED <<syncVars, queueVars, analysisVars, contentVars>>

SpecRefreshAll == InitRefreshAll /\ [][NextRefreshAll]_vars

\* ---- collectFiles alone, on the material of one message
\* the img sources whose server is asked
AskedSrcs == {url \in ImgSrcs : downloadable(url)}

NextCollect ==
    \/ \E pdfCount \in 0..MaxPdfRows, largePdf \in BOOLEAN :
          /\ pdfCount = 0 => ~largePdf
          /\ CollectPdfs(pdfCount, largePdf)
          /\ UNCHANGED <<tokenVars, syncVars, queueVars, analysisVars>>
    \/ /\ collected.stage = "pdfs"
       /\ \E htmlBody \in SeqsUpTo(ImgSrcs, MaxImgTags) :
             LET urls == extractImageUrlsFromHtml(htmlBody)
             IN \E responses \in [1..Len(urls) -> Responses \cup {Unasked}] :
                   /\ \A i \in 1..Len(urls) :
                         responses[i] = Unasked <=> urls[i] \notin AskedSrcs
                   /\ CollectUrlImages(htmlBody, responses)
                   /\ UNCHANGED <<tokenVars, syncVars, queueVars, analysisVars>>
    \/ \E inlineRows \in SeqsUpTo(InlineRows, MaxInlineRows) :
          /\ CollectInlineImages(inlineRows)
          /\ UNCHANGED <<tokenVars, syncVars, queueVars, analysisVars>>

SpecCollect == InitToken /\ [][NextCollect]_vars

\* ---- parseGmailMessage alone, on one payload
NextParse ==
    /\ parsed.stage = "none"
    /\ \E payload \in Payloads :
          /\ ParseGmailMessage(payload)
          /\ UNCHANGED <<tokenVars, syncVars, queueVars, analysisVars>>

SpecParse == InitToken /\ [][NextParse]_vars

RECURSIVE pushUnlessQueued(_, _)
\* the loop of manualEnqueue: existingIds was built before the loop and is not
\* updated by the pushes; userId is set to 0
pushUnlessQueued(ids, existingIds) ==
    IF ids = <<>> THEN <<>>
    ELSE (IF Head(ids) \in existingIds THEN <<>>
          ELSE <<[emailId |-> Head(ids), userId |-> 0]>>)
         \o pushUnlessQueued(Tail(ids), existingIds)

\* longest queue a manual enqueue may still produce
MaxQueue == 2

\* manualEnqueue(emailIds): synchronous, does not look at the flags
ManualEnqueue(ids) ==
    LET existingIds == {queue[k].emailId : k \in 1..Len(queue)}
    IN /\ Len(queue) + Len(ids) <= MaxQueue
       /\ queue' = queue \o pushUnlessQueued(ids, existingIds)
       /\ UNCHANGED <<isEnqueuing, isProcessing, producers, lastTrigger, failedOnce,
                      analysisVars>>

\* clearQueue (DELETE email-analysis/queue): a new empty array; a batch that a
\* consumer has taken is not affected
ClearQueue ==
    /\ queue' = <<>>
    /\ UNCHANGED <<isEnqueuing, isProcessing, producers, lastTrigger, failedOnce,
                   analysisVars>>

\* the emails table once both users' mailboxes were mirrored, one message per
\* sync run: the first user's two messages, then the second user's one
Mirrored ==
    { [id |-> 1, userId |-> 1, messageId |-> 1, receivedAt |-> MsgDate(1),
      analyzedAt |-> None],
      [id |-> 2, userId |-> 1, messageId |-> 2, receivedAt |-> MsgDate(2),
      analyzedAt |-> None],
      [id |-> 3, userId |-> 2, messageId |-> 1, receivedAt |-> MsgDate(1),
      analyzedAt |-> None] }

\* number of mirrored emails the queue and the concurrent analyses start from
QueueEmails == 2

MirroredThrough(n) == {e \in Mirrored : e.id <= n}

\* the state after the sync run that stored the n-th email
InitMirrored(n) ==
    LET stored == MirroredThrough(n)
        last == CHOOSE e \in stored : \A x \in stored : x.id <= e.id
        idsOf(u) == {e.messageId : e \in {x \in stored : x.userId = u}}
    IN /\ clock = 0
       /\ accounts = Authorised
       /\ tokenCall = NoCall
       /\ refreshRun = NoRefreshRun
       /\ collected = NoCollect
       /\ parsed = NoParse
       /\ mailbox = [u \in Users |-> idsOf(u)]
       /\ emails = stored
       /\ attachments = {}
       /\ failedAttachments = {}
       /\ isSyncing = FALSE
       /\ runs = [s \in Slots |-> IdleRun]
       /\ done = [NoResult EXCEPT !.kind = "ok", !.user = last.userId, !.synced = 1]
       /\ lastSync = [u \in Users |->
                        IF idsOf(u) # {}
                        THEN [valid |-> TRUE, clean |-> TRUE, store |-> idsOf(u)]
                        ELSE NoLast]

InitQueue == InitMirrored(QueueEmails) /\ InitAnalysis

\* the same, after a first producer run filled the queue
InitQueued ==
    /\ InitMirrored(QueueEmails)
    /\ reports = {}
    /\ nextReportId = 1
    /\ queue \in {mapItems(found) : found \in getUnanalyzedEmails(EnqueueLimit)}
    /\ isEnqueuing = FALSE
    /\ isProcessing = FALSE
    /\ producers = [i \in Instances |-> IdleProducer]
    /\ runners = [s \in RunnerSlots |-> IdleRunner]
    /\ calls = [s \in RunnerSlots |-> IdleCall]
    /\ analyzed = NoOutcome
    /\ consumerLog = NoLog
    /\ lastTrigger = Trigger("producer", FALSE, "started")
    /\ failedOnce = {}

InitDuplicates == InitMirrored(Cardinality(Mirrored)) /\ InitAnalysis

\* classifier answers: a receipt with every detail, the same purchase with
\* little detail, and a mail that is no payment
FullReceipt ==
    [isPayment |-> TRUE, amount |-> 1000, currency |-> "KRW",
     merchant |-> <<"T","o","s","s"," ","I","n","c",".">>,
     paymentDate |-> MsgDate(1) + DayMs, cardType |-> "visa", paymentType |-> "online",
     category |-> "living", summaryLength |-> 30]
BareReceipt ==
    [NoInfo EXCEPT !.isPayment = TRUE, !.amount = 1000,
                   !.merchant = <<"t","o","s","s">>]
NotPayment == [NoInfo EXCEPT !.summaryLength = 30]

QueueResponses == {ClassifierError, Completion(BareReceipt)}
DuplicateResponses ==
    {ClassifierError, Completion(FullReceipt), Completion(BareReceipt), Completion(NotPayment)}

analysisFrame == <<tokenVars, syncVars, contentVars, queue, isEnqueuing, producers, lastTrigger>>
queueFrame == <<tokenVars, syncVars, contentVars>>

\* the queue's two actors and the single-email endpoint
NextQueue ==
    \/ \E manual \in BOOLEAN : EnqueueUnanalyzedEmails(manual) /\ UNCHANGED queueFrame
    \/ \E i \in Instances, ok \in BOOLEAN : EnqueueQuery(i, ok) /\ UNCHANGED queueFrame
    \/ \E i \in Instances : EnqueuePush(i) /\ UNCHANGED queueFrame
    \/ \E manual \in BOOLEAN : ProcessQueue(manual) /\ UNCHANGED queueFrame
    \/ \E e \in Mirrored : ControllerAnalyzeEmail(e.id) /\ UNCHANGED analysisFrame
    \/ \E s \in RunnerSlots : AnalyzeLoad(s) /\ UNCHANGED analysisFrame
    \/ \E s \in RunnerSlots, response \in QueueResponses :
          AnalyzeClassify(s, response) /\ UNCHANGED analysisFrame
    \/ \E s \in RunnerSlots : AnalyzeSave(s) /\ UNCHANGED analysisFrame

SpecQueue == InitQueue /\ [][NextQueue]_vars

\* ---- the queue under every operation of the scheduler: producer and consumer
\* runs, manual enqueues of up to MaxManualIds ids and clears
MaxManualIds == 2
ManualIds == SeqsUpTo({e.id : e \in MirroredThrough(QueueEmails)}, MaxManualIds) \ {<<>>}

NextManual ==
    \/ \E manual \in BOOLEAN : EnqueueUnanalyzedEmails(manual) /\ UNCHANGED queueFrame
    \/ \E i \in Instances, ok \in BOOLEAN : EnqueueQuery(i, ok) /\ UNCHANGED queueFrame
    \/ \E i \in Instances : EnqueuePush(i) /\ UNCHANGED queueFrame
    \/ \E manual \in BOOLEAN : ProcessQueue(manual) /\ UNCHANGED queueFrame
    \/ \E ids \in ManualIds : ManualEnqueue(ids) /\ UNCHANGED queueFrame
    \/ ClearQueue /\ UNCHANGED queueFrame
    \/ \E s \in ConsumerSlots : AnalyzeLoad(s) /\ UNCHANGED analysisFrame
    \/ \E s \in ConsumerSlots, response \in QueueResponses :
          AnalyzeClassify(s, response) /\ UNCHANGED analysisFrame
    \/ \E s \in ConsumerSlots : AnalyzeSave(s) /\ UNCHANGED analysisFrame

SpecManual == InitQueue /\ [][NextManual]_vars

\* every caller of analyzeEmail at once: the consumer working off a filled
\* queue, the single-email endpoint and the batch endpoint
NextAnalysis ==
    \/ \E manual \in BOOLEAN : ProcessQueue(manual) /\ UNCHANGED queueFrame
    \/ \E e \in Mirrored : ControllerAnalyzeEmail(e.id) /\ UNCHANGED analysisFrame
    \/ \E u \in Users, limit \in LimitChoices, force \in BOOLEAN :
          AnalyzeUserEmails(u, limit, force) /\ UNCHANGED analysisFrame
    \/ \E s \in RunnerSlots : AnalyzeLoad(s) /\ UNCHANGED analysisFrame
    \/ \E s \in RunnerSlots, response \in QueueResponses :
          AnalyzeClassify(s, response) /\ UNCHANGED analysisFrame
    \/ \E s \in RunnerSlots : AnalyzeRemove(s) /\ UNCHANGED analysisFrame
    \/ \E s \in RunnerSlots : AnalyzeSave(s) /\ UNCHANGED analysisFrame

SpecAnalysis == InitQueued /\ [][NextAnalysis]_vars

\* analyses one after the other, and the duplicate detector
NextDuplicates ==
    \/ \E e \in Mirrored : ControllerAnalyzeEmail(e.id) /\ UNCHANGED analysisFrame
    \/ \E u \in Users, limit \in LimitChoices, force \in BOOLEAN :
          AnalyzeUserEmails(u, limit, force) /\ UNCHANGED analysisFrame
    \/ \E s \in RunnerSlots : AnalyzeLoad(s) /\ UNCHANGED analysisFrame
    \/ \E s \in RunnerSlots, response \in DuplicateResponses :
          AnalyzeClassify(s, response) /\ UNCHANGED analysisFrame
    \/ \E s \in RunnerSlots : AnalyzeRemove(s) /\ UNCHANGED analysisFrame
    \/ \E s \in RunnerSlots : AnalyzeSave(s) /\ UNCHANGED analysisFrame
    \/ \E u \in Users : MarkDuplicates(u) /\ UNCHANGED analysisFrame
    \/ \E u \in Users : ResetDuplicates(u) /\ UNCHANGED analysisFrame

SpecDuplicates == InitDuplicates /\ [][NextDuplicates]_vars

\* ---- the list request of syncUserEmails against a mailbox of up to ListMsgs messages,
\*      some of them stored by earlier calls (a call stores any part of what it lists),
\*      at any time after the accounts were authorised
ListMsgs == 4
ListMsgIds == 1..ListMsgs

\* the rows earlier calls left for the first user: ids in the order of the provider ids
StoredRows(S) ==
    {[id |-> Cardinality({x \in S : x <= m}), userId |-> 1, messageId |-> m,
      receivedAt |-> MsgDate(m),
      analyzedAt |-> None] : m \in S}

InitList ==
    /\ clock \in 0..MaxNow
    /\ accounts = Authorised
    /\ tokenCall = NoCall
    /\ refreshRun = NoRefreshRun
    /\ collected = NoCollect
    /\ parsed = NoParse
    /\ \E M \in SUBSET ListMsgIds :
          /\ mailbox = [u \in Users |-> IF u = 1 THEN M ELSE {}]
          /\ \E S \in SUBSET M :
                /\ emails = StoredRows(S)
                /\ attachments = UNION {saveAttachments({}, e.id, AttachmentIds(e.messageId),
                                                         1..MaxAttachments) :
                                           e \in StoredRows(S)}
    /\ failedAttachments = {}
    /\ isSyncing = FALSE
    /\ runs = [s \in Slots |-> IdleRun]
    /\ done = NoResult
    /\ lastSync = [u \in Users |-> NoLast]
    /\ InitAnalysis

NextList ==
    \/ \E u \in Users : ControllerTriggerSync(u) /\ UNCHANGED <<queueVars, analysisVars, contentVars>>
    \/ \E s \in Slots, ok \in BOOLEAN, x \in ExpiresInChoices, stallAt \in {None, ProviderPage} :
          SyncList(s, ok, x, stallAt, TRUE) /\ UNCHANGED <<queueVars, analysisVars, contentVars>>
    \/ \E s \in Slots : SyncDiff(s) /\ UNCHANGED <<queueVars, analysisVars, contentVars>>
    \/ \E s \in Slots, ok \in BOOLEAN, attOk \in SUBSET (1..MaxAttachments) :
          SyncSave(s, ok, attOk) /\ UNCHANGED <<queueVars, analysisVars, contentVars>>

SpecList == InitList /\ [][NextList]_vars

\* ---- the first user's sync triggered again and again (POST /google/sync): the
\* list requests succeed, the fetch of a message may fail
NextEventually ==
    \/ ControllerTriggerSync(1) /\ UNCHANGED <<queueVars, analysisVars, contentVars>>
    \/ \E x \in ExpiresInChoices :
          SyncList("direct", TRUE, x, None, TRUE)
             /\ UNCHANGED <<queueVars, analysisVars, contentVars>>
    \/ SyncDiff("direct") /\ UNCHANGED <<queueVars, analysisVars, contentVars>>
    \/ \E ok \in BOOLEAN :
          SyncSave("direct", ok, 1..MaxAttachments)
             /\ UNCHANGED <<queueVars, analysisVars, contentVars>>

\* the mailbox and the stored rows of InitList at one instant
InitEventually == InitList /\ clock = 0

\* the fetch of message m succeeds and the message is stored
FetchSucceeds(m) ==
    /\ runs["direct"].pc = "save"
    /\ Head(runs["direct"].new) = m
    /\ SyncSave("direct", TRUE, 1..MaxAttachments)
    /\ UNCHANGED <<queueVars, analysisVars, contentVars>>

\* sync keeps being triggered and every run goes on to its end (weak fairness);
\* a message whose fetch is attempted again and again is fetched successfully in
\* the end (strong fairness)
SpecEventually ==
    /\ InitEventually
    /\ [][NextEventually]_vars
    /\ WF_vars(NextEventually)
    /\ \A m \in ListMsgIds : SF_vars(FetchSucceeds(m))

\* ---- the consumer alone, on the queue a producer run filled from n stored emails
ConsumerEmails == 7

ConsumerRows(n) ==
    {[id |-> m, userId |-> 1, messageId |-> m, receivedAt |-> MsgDate(m),
      analyzedAt |-> None] : m \in 1..n}

InitConsumer ==
    /\ clock = 0
    /\ accounts = Authorised
    /\ tokenCall = NoCall
    /\ refreshRun = NoRefreshRun
    /\ collected = NoCollect
    /\ parsed = NoParse
    /\ \E n \in 0..ConsumerEmails :
          /\ mailbox = [u \in Users |-> IF u = 1 THEN 1..n ELSE {}]
          /\ emails = ConsumerRows(n)
    /\ attachments = {}
    /\ failedAttachments = {}
    /\ isSyncing = FALSE
    /\ runs = [s \in Slots |-> IdleRun]
    /\ done = NoResult
    /\ lastSync = [u \in Users |-> NoLast]
    /\ reports = {}
    /\ nextReportId = 1
    /\ queue \in {mapItems(found) : found \in getUnanalyzedEmails(EnqueueLimit)}
    /\ isEnqueuing = FALSE
    /\ isProcessing = FALSE
    /\ producers = [i \in Instances |-> IdleProducer]
    /\ runners = [s \in RunnerSlots |-> IdleRunner]
    /\ calls = [s \in RunnerSlots |-> IdleCall]
    /\ analyzed = NoOutcome
    /\ consumerLog = NoLog
    /\ lastTrigger = Trigger("producer", FALSE, "started")
    /\ failedOnce = {}

NextConsumer ==
    \/ \E manual \in BOOLEAN : ProcessQueue(manual) /\ UNCHANGED queueFrame
    \/ \E s \in RunnerSlots : AnalyzeLoad(s) /\ UNCHANGED analysisFrame
    \/ \E s \in RunnerSlots, response \in QueueResponses :
          AnalyzeClassify(s, response) /\ UNCHANGED analysisFrame
    \/ \E s \in RunnerSlots : AnalyzeSave(s) /\ UNCHANGED analysisFrame

SpecConsumer == InitConsumer /\ [][NextConsumer]_vars

\* ---- the three flagged actors side by side: the periodic sync of all users,
\* the producer and the consumer; nothing is stored yet and the first user's
\* mailbox holds one message
InitFlags ==
    /\ clock = 0
    /\ accounts = Authorised
    /\ tokenCall = NoCall
    /\ refreshRun = NoRefreshRun
    /\ collected = NoCollect
    /\ parsed = NoParse
    /\ mailbox = [u \in Users |-> IF u = 1 THEN {1} ELSE {}]
    /\ emails = {}
    /\ attachments = {}
    /\ failedAttachments = {}
    /\ isSyncing = FALSE
    /\ runs = [s \in Slots |-> IdleRun]
    /\ done = NoResult
    /\ lastSync = [u \in Users |-> NoLast]
    /\ InitAnalysis

\* the awaited steps of a sync run over all users
SyncSteps ==
    \/ \E dbOk \in BOOLEAN :
          SyncAllUsers("flagged", dbOk) /\ UNCHANGED <<queueVars, analysisVars, contentVars>>
    \/ \E ok \in BOOLEAN, x \in ExpiresInChoices, listOk \in BOOLEAN :
          SyncList("flagged", ok, x, None, listOk)
             /\ UNCHANGED <<queueVars, analysisVars, contentVars>>
    \/ SyncDiff("flagged") /\ UNCHANGED <<queueVars, analysisVars, contentVars>>
    \/ \E ok \in BOOLEAN :
          SyncSave("flagged", ok, 1..MaxAttachments)
             /\ UNCHANGED <<queueVars, analysisVars, contentVars>>

\* the awaited steps of a producer run
ProducerSteps ==
    \/ \E i \in Instances, ok \in BOOLEAN : EnqueueQuery(i, ok) /\ UNCHANGED queueFrame
    \/ \E i \in Instances : EnqueuePush(i) /\ UNCHANGED queueFrame

\* the awaited steps of a consumer run
ConsumerSteps ==
    \/ \E s \in ConsumerSlots : AnalyzeLoad(s) /\ UNCHANGED analysisFrame
    \/ \E s \in ConsumerSlots, response \in QueueResponses :
          AnalyzeClassify(s, response) /\ UNCHANGED analysisFrame
    \/ \E s \in ConsumerSlots : AnalyzeSave(s) /\ UNCHANGED analysisFrame

NextFlags ==
    \/ HandleEmailSync /\ UNCHANGED <<queueVars, analysisVars, contentVars>>
    \/ TriggerSyncAll /\ UNCHANGED <<queueVars, analysisVars, contentVars>>
    \/ SyncSteps
    \/ \E manual \in BOOLEAN : EnqueueUnanalyzedEmails(manual) /\ UNCHANGED queueFrame
    \/ ProducerSteps
    \/ \E manual \in BOOLEAN : ProcessQueue(manual) /\ UNCHANGED queueFrame
    \/ ConsumerSteps

\* every request a run awaits is answered or fails: a run in progress takes its
\* next step
SpecFlags ==
    /\ InitFlags
    /\ [][NextFlags]_vars
    /\ WF_vars(SyncSteps) /\ WF_vars(ProducerSteps) /\ WF_vars(ConsumerSteps)

\* ---- the consumer alone again, with a classifier that also answers "not a payment"
CountResponses == QueueResponses \cup {Completion(NotPayment)}

NextCounts ==
    \/ \E manual \in BOOLEAN : ProcessQueue(manual) /\ UNCHANGED queueFrame
    \/ \E s \in ConsumerSlots : AnalyzeLoad(s) /\ UNCHANGED analysisFrame
    \/ \E s \in ConsumerSlots, response \in CountResponses :
          AnalyzeClassify(s, response) /\ UNCHANGED analysisFrame
    \/ \E s \in ConsumerSlots : AnalyzeSave(s) /\ UNCHANGED analysisFrame

SpecCounts == InitConsumer /\ [][NextCounts]_vars

\* ---- producer and consumer triggered again and again on a backlog of
\* unanalysed emails of which only the oldest can be analysed: the classifier
\* call fails for every other email, on every attempt
SmallBacklog == 4
BacklogChoices == {SmallBacklog, EnqueueLimit + 1}

\* the oldest stored email
OldestEmail ==
    CHOOSE m \in 1..SmallBacklog : \A k \in 1..SmallBacklog : MsgDate(m) <= MsgDate(k)
ClassifierAnswer(emailId) ==
    IF emailId = OldestEmail THEN Completion(BareReceipt) ELSE ClassifierError

InitBacklog ==
    /\ clock = 0
    /\ accounts = Authorised
    /\ tokenCall = NoCall
    /\ refreshRun = NoRefreshRun
    /\ collected = NoCollect
    /\ parsed = NoParse
    /\ \E n \in BacklogChoices :
          /\ mailbox = [u \in Users |-> IF u = 1 THEN 1..n ELSE {}]
          /\ emails = ConsumerRows(n)
    /\ attachments = {}
    /\ failedAttachments = {}
    /\ isSyncing = FALSE
    /\ runs = [s \in Slots |-> IdleRun]
    /\ done = NoResult
    /\ lastSync = [u \in Users |-> NoLast]
    /\ InitAnalysis

\* the schedule followed here: the consumer works the queue off between two
\* producer runs, and no tick finds a run in progress
ProducerTrigger ==
    /\ ~isEnqueuing /\ ~isProcessing /\ queue = <<>>
    /\ EnqueueUnanalyzedEmails(FALSE)
    /\ UNCHANGED queueFrame
ProducerQuery == \E i \in Instances : EnqueueQuery(i, TRUE) /\ UNCHANGED queueFrame
ProducerPush == \E i \in Instances : EnqueuePush(i) /\ UNCHANGED queueFrame
ConsumerTrigger ==
    ~isProcessing /\ ~isEnqueuing /\ ProcessQueue(FALSE) /\ UNCHANGED queueFrame
ConsumerLoad == \E s \in ConsumerSlots : AnalyzeLoad(s) /\ UNCHANGED analysisFrame
ConsumerClassify ==
    \E s \in ConsumerSlots :
       AnalyzeClassify(s, ClassifierAnswer(calls[s].emailId)) /\ UNCHANGED analysisFrame
ConsumerSave == \E s \in ConsumerSlots : AnalyzeSave(s) /\ UNCHANGED analysisFrame

NextBacklog ==
    \/ ProducerTrigger
    \/ ProducerQuery
    \/ ProducerPush
    \/ ConsumerTrigger
    \/ ConsumerLoad
    \/ ConsumerClassify
    \/ ConsumerSave

\* both cron jobs keep firing and every run goes on to its end
SpecBacklog ==
    /\ InitBacklog
    /\ [][NextBacklog]_vars
    /\ WF_vars(ProducerTrigger) /\ WF_vars(ProducerQuery) /\ WF_vars(ProducerPush)
    /\ WF_vars(ConsumerTrigger) /\ WF_vars(ConsumerLoad)
    /\ WF_vars(ConsumerClassify) /\ WF_vars(ConsumerSave)

\* ---- the duplicate detector alone, on the reports of up to DetectorEmails analysed
\*      emails of the first user and one email of the second
DetectorEmails == 3
PurchaseDay == 165 * DayMs

StarbucksInc == <<"S","t","a","r","b","u","c","k","s"," ","I","n","c",".">>
Starbucks == <<"s","t","a","r","b","u","c","k","s">>

\* what the classifier says about the receipts of one purchase of 1000 (in hundredths)
Receipt(merchant, paymentDate, cardType) ==
    [NoInfo EXCEPT !.isPayment = TRUE, !.amount = 1000, !.merchant = merchant,
                   !.paymentDate = paymentDate, !.cardType = cardType]

DetectorResponses ==
    {Completion(Receipt(m, PurchaseDay + d * DayMs, c)) :
        m \in {StarbucksInc, Starbucks}, d \in 0..2, c \in {"", "visa"}}

\* the receipt the second user's email is analysed as
OtherReceipt == Completion(Receipt(Starbucks, PurchaseDay, ""))

DetectorRows ==
    ConsumerRows(DetectorEmails)
    \cup {[id |-> DetectorEmails + 1, userId |-> 2, messageId |-> 1,
           receivedAt |-> MsgDate(1), analyzedAt |-> None]}

\* the reports of the emails in E, analysed in the order of their ids
AnalysedReports(E, response) ==
    {createReport(Cardinality({x \in E : x.id <= e.id}), e,
                  analyzePaymentEmail(response[e.id]).analysis) : e \in E}

InitDetector ==
    /\ clock = 0
    /\ accounts = Authorised
    /\ tokenCall = NoCall
    /\ refreshRun = NoRefreshRun
    /\ collected = NoCollect
    /\ parsed = NoParse
    /\ mailbox = [u \in Users |-> {e.messageId : e \in {x \in DetectorRows : x.userId = u}}]
    /\ emails = DetectorRows
    /\ attachments = {}
    /\ failedAttachments = {}
    /\ isSyncing = FALSE
    /\ runs = [s \in Slots |-> IdleRun]
    /\ done = NoResult
    /\ lastSync = [u \in Users |-> NoLast]
    /\ \E E \in SUBSET DetectorRows :
          /\ \E response \in [{e.id : e \in E} -> DetectorResponses] :
                /\ \A e \in E : e.userId # 1 => response[e.id] = OtherReceipt
                /\ reports = AnalysedReports(E, response)
          /\ nextReportId = Cardinality(E) + 1
    /\ queue = <<>>
    /\ isEnqueuing = FALSE
    /\ isProcessing = FALSE
    /\ producers = [i \in Instances |-> IdleProducer]
    /\ runners = [s \in RunnerSlots |-> IdleRunner]
    /\ calls = [s \in RunnerSlots |-> IdleCall]
    /\ analyzed = NoOutcome
    /\ consumerLog = NoLog
    /\ lastTrigger = NoTrigger
    /\ failedOnce = {}

NextDetector ==
    \/ \E u \in Users : MarkDuplicates(u) /\ UNCHANGED analysisFrame
    \/ \E u \in Users : ResetDuplicates(u) /\ UNCHANGED analysisFrame

SpecDetector == InitDetector /\ [][NextDetector]_vars

\* a syncUserEmails call of the syncAllUsers run in slot s ends with this step
BulkCallEnds(s) ==
    /\ runs[s].kind = "all"
    /\ runs[s].pc \in {"token", "diff", "save"}
    /\ \/ runs'[s].pc = "idle"
       \/ runs'[s].todo # runs[s].todo

\* C24: in a syncAllUsers run, the end of one account's syncUserEmails call, thrown
\* error or not, hands the run to the next account the query found; the run ends only
\* after the last of them, and a failed call changes no other account's data.
C24_BulkSyncIsolatesFailure ==
    [][\A s \in Slots :
          BulkCallEnds(s) =>
             LET todo == runs[s].todo
             IN /\ done'.user = Head(todo)
                /\ IF Len(todo) > 1
                   THEN /\ runs'[s].pc = "token"
                        /\ runs'[s].kind = "all"
                        /\ runs'[s].todo = Tail(todo)
                   ELSE runs'[s].pc = "idle"
                /\ done'.kind = "error" =>
                      /\ emails' = emails
                      /\ \A o \in Users \ {Head(todo)} : accounts'[o] = accounts[o]]_vars

\* C24 witness: the call for the first account of a syncAllUsers run threw, and the
\* run is about to ask for the second account's token.
C24_Witness ==
    \E s \in Slots :
       /\ runs[s].kind = "all" /\ runs[s].pc = "token"
       /\ runs[s].todo = <<2>>
       /\ done.kind = "error" /\ done.user = 1

\* ------------------------------------------------------------------ properties: analysis
\* C3: no two rows of payment_reports belong to the same email, whatever calls
\* of analyzeEmail (consumer, single, batch, forced or not) overlapped.
C3_OneReportPerEmail ==
    \A r \in reports, q \in reports : r.emailId = q.emailId => r = q

\* C3 witness: a call that had classified its email found the insert rejected,
\* because an overlapping call had stored the email's report first.
C3_Witness ==
    /\ analyzed.kind = "error" /\ analyzed.classified /\ ~analyzed.threw
    /\ Cardinality(reportOfEmail(reports, analyzed.emailId)) = 1

\* C4: a call without force that loads an email together with its report
\* returns that report, without collecting files or asking the classifier and
\* without writing.
C4_ExistingReturned ==
    (analyzed.kind # "none" /\ ~analyzed.force /\ analyzed.hadReport # None)
    => /\ analyzed.kind = "existing"
       /\ analyzed.report = analyzed.hadReport
       /\ ~analyzed.classified
       /\ ~analyzed.wrote

\* C4 witness: the second call for an analysed email returned its stored report.
C4_Witness ==
    /\ analyzed.kind = "existing"
    /\ \E r \in reports : r.id = analyzed.report /\ r.emailId = analyzed.emailId

\* C5 (as claimed): every report flagged as duplicate names, as its primary, a
\* stored report that is not itself flagged.
C5_DuplicateHasPrimary ==
    \A r \in reports :
        r.isDuplicate =>
            \E q \in reports : q.id = r.primaryReportId /\ ~q.isDuplicate

\* C10: a call whose classifier request failed ends in an error and has
\* neither deleted nor inserted a report.
C10_ClassifierFailure ==
    analyzed.threw =>
        (analyzed.kind = "error" /\ analyzed.report = None /\ ~analyzed.wrote)

\* C10 witness: a forced re-analysis failed in the classifier and the report it
\* had loaded is still stored.
C10_Witness ==
    /\ analyzed.threw /\ analyzed.force /\ analyzed.kind = "error"
    /\ \E r \in reports : r.id = analyzed.hadReport /\ r.emailId = analyzed.emailId

\* an analyzeEmail call with force = true that had loaded a stored report has just
\* returned to its caller without throwing
ForcedReturn ==
    /\ analyzed' # analyzed
    /\ analyzed'.force /\ analyzed'.hadReport # None /\ analyzed'.kind # "error"

\* C14: a forced analysis of a message that has a record asks the classifier, deletes
\* the record it loaded and stores a new one; when it returns, the message has exactly
\* one record, the one the call returns, and the old record no longer exists.
C14_ForcedReanalysisReplaces ==
    [][ForcedReturn =>
          /\ analyzed'.kind = "ok" /\ analyzed'.classified /\ ~analyzed'.threw
          /\ analyzed'.report # analyzed'.hadReport
          /\ {r.id : r \in reportOfEmail(reports', analyzed'.emailId)} = {analyzed'.report}
          /\ \A r \in reports' : r.id # analyzed'.hadReport]_vars

\* C14 witness: a forced analysis has replaced a stored record by a new one.
C14_Witness ==
    /\ analyzed.kind = "ok" /\ analyzed.force /\ analyzed.hadReport # None
    /\ analyzed.report # analyzed.hadReport
    /\ {r.id : r \in reportOfEmail(reports, analyzed.emailId)} = {analyzed.report}
    /\ \A r \in reports : r.id # analyzed.hadReport

\* C15 (as claimed): once an analyzeEmail call for a message has completed successfully,
\* the message's analyzedAt is set.
C15_AnalyzedAtStamped ==
    analyzed.kind = "ok" =>
       \A e \in emailById(analyzed.emailId) : e.analyzedAt # None

\* an analyzeEmail call of the analyze-batch run returns or throws with this step
BatchCallEnds ==
    /\ runners["api"].kind = "batch"
    /\ calls["api"].pc \in {"load", "classify", "save"}
    /\ runners'["api"].todo # runners["api"].todo

ActiveProducers == {i \in Instances : producers[i].pc # "idle"}
ActiveConsumers == {s \in ConsumerSlots : runners[s].kind # "idle"}

\* a trigger of the actor arrives in this step
Triggered(actor) == lastTrigger' # lastTrigger /\ lastTrigger'.actor = actor

\* C7: at most one producer run and one consumer run are in progress, and a
\* trigger that finds the actor's flag set is skipped: nothing but the record
\* of the trigger changes.
C7_OneInstancePerActor ==
    /\ [](Cardinality(ActiveProducers) <= 1 /\ Cardinality(ActiveConsumers) <= 1)
    /\ [][ /\ (isEnqueuing /\ Triggered("producer"))
               => (lastTrigger'.outcome = "skipped"
                   /\ UNCHANGED <<queue, isEnqueuing, isProcessing, producers, failedOnce,
                                  analysisVars, emails>>)
           /\ (isProcessing /\ Triggered("consumer"))
               => (lastTrigger'.outcome = "skipped"
                   /\ UNCHANGED <<queue, isEnqueuing, isProcessing, producers, failedOnce,
                                  analysisVars, emails>>) ]_vars

\* C7 witness: both actors are running and a trigger has just been skipped.
C7_Witness ==
    /\ isEnqueuing /\ isProcessing
    /\ Cardinality(ActiveProducers) = 1 /\ Cardinality(ActiveConsumers) = 1
    /\ lastTrigger.outcome = "skipped"

\* number of queue items for an email
Queued(q, emailId) == Cardinality({k \in 1..Len(q) : q[k].emailId = emailId})

\* C9 (as claimed): an email whose analysis failed in the consumer is never put
\* into the queue again.
C9_FailedNotReenqueued ==
    [][\A e \in failedOnce : Queued(queue', e) <= Queued(queue, e)]_vars

QueuedIds(q) == {q[k].emailId : k \in 1..Len(q)}

Started(s) == runners[s].kind = "idle" /\ runners'[s].kind = "consumer"

\* C17: a consumer trigger that finds the queue empty changes nothing; a consumer run
\* takes the first min(5, length) items off the queue, leaves the other items in their
\* order, and calls the engine for the taken items one at a time in the order they
\* were queued.
C17_ConsumerBatch ==
    [][/\ (queue = <<>> /\ calls' = calls) =>
             UNCHANGED <<queue, isProcessing, runners, reports, analyzed>>
       /\ \A s \in ConsumerSlots :
             /\ Started(s) =>
                   LET n == Min(BatchSize, Len(queue))
                   IN /\ queue # <<>>
                      /\ runners'[s].todo = [k \in 1..n |-> queue[k].emailId]
                      /\ queue' = SubSeq(queue, n + 1, Len(queue))
             /\ runners'[s].kind = "consumer" =>
                   /\ calls'[s].pc # "idle"
                   /\ calls'[s].emailId = Head(runners'[s].todo)
             /\ (runners[s].kind = "consumer" /\ runners'[s].kind = "consumer") =>
                   /\ runners'[s].todo \in {runners[s].todo, Tail(runners[s].todo)}
                   /\ runners'[s].todo # runners[s].todo => calls'[s].pc = "load"
             /\ (runners[s].kind = "consumer" /\ runners'[s].kind = "idle") =>
                   Len(runners[s].todo) = 1]_vars

\* C17 witness: a consumer run has taken five items, is on its second one, and two
\* items are left in the queue.
C17_Witness ==
    \E s \in ConsumerSlots :
       /\ runners[s].kind = "consumer"
       /\ Len(runners[s].todo) = BatchSize - 1
       /\ Len(queue) >= 2
       /\ calls[s].emailId = Head(runners[s].todo)

\* number of times an email is in the batch of a running consumer
InFlight(emailId) ==
    Cardinality({<<s, k>> \in ConsumerSlots \X (1..BatchSize) :
                    /\ runners[s].kind = "consumer"
                    /\ k <= Len(runners[s].todo)
                    /\ runners[s].todo[k] = emailId})

\* C31 (as claimed): an email is in the queue or in the batch of a running
\* consumer at most once, so an email the consumer has taken and is analysing
\* is not in the queue as well.
C31_QueuedOrInFlightOnce ==
    \A e \in emails : Queued(queue, e.id) + InFlight(e.id) <= 1

\* C32 (as claimed): no two items of the queue have the same email id.
C32_NoDuplicateInQueue ==
    \A j, k \in 1..Len(queue) : queue[j].emailId = queue[k].emailId => j = k

\* the stored emails without a report whose analysis would succeed
Waiting ==
    {e \in emails : /\ reportOfEmail(reports, e.id) = {}
                    /\ ClassifierAnswer(e.id).kind # "error"}

\* C34 (as claimed): every unanalysed email whose analysis would succeed is
\* analysed in the end.
C34_EveryAnalyzableEventuallyAnalyzed == <>(Waiting = {})

\* C35: each flag is set exactly while a run of its actor is in progress
\* (isSyncing during a run over all users, isEnqueuing during a producer run,
\* isProcessing during a consumer run), and a flag that is set is cleared again:
\* a run that ends, by returning or by an error, leaves its flag cleared.
C35_FlagsFollowRuns ==
    /\ [](/\ isSyncing <=> runs["flagged"].pc # "idle"
          /\ isEnqueuing <=> ActiveProducers # {}
          /\ isProcessing <=> ActiveConsumers # {})
    /\ isSyncing ~> ~isSyncing
    /\ isEnqueuing ~> ~isEnqueuing
    /\ isProcessing ~> ~isProcessing

\* C35 witness: the sync run ended with the last user's call throwing, the
\* consumer run ended after an analysis that failed, the message is stored, and
\* no flag is set.
C35_Witness ==
    /\ ~isSyncing /\ ~isEnqueuing /\ ~isProcessing
    /\ done.kind = "error" /\ done.user = NumUsers
    /\ runs["flagged"].pc = "idle"
    /\ analyzed.kind = "error" /\ analyzed.slot \in ConsumerSlots
    /\ ActiveConsumers = {}
    /\ emails # {}

\* C39: the counts a consumer run reports describe its batch: processed + failed is
\* the size of the batch, and the payments count is the number of items of the batch
\* that came back with a record whose isPayment is true.
C39_CountsDescribeBatch ==
    /\ consumerLog.processed + consumerLog.failed = consumerLog.batch
    /\ consumerLog.payments = consumerLog.paymentRecords

\* ------------------------------------------------------------------ properties: tokens
\* C6: a call that finds the stored token expired and cannot refresh it (no
\* refresh token, or the provider rejects the exchange) fails, leaves
\* needsReauth = true and returns no token.
C6_NoStaleToken ==
    (tokenCall.kind # "none" /\ tokenCall.wasExpired
        /\ (~tokenCall.hadRefreshToken \/ ~tokenCall.providerOk))
    => (tokenCall.kind = "error" /\ tokenCall.token = None /\ tokenCall.needsReauth)

\* C6 witness: the provider rejected the exchange of an account that holds a
\* refresh token and a stale access token.
C6_Witness ==
    /\ tokenCall.kind = "error" /\ tokenCall.wasExpired
    /\ tokenCall.hadRefreshToken /\ ~tokenCall.providerOk
    /\ tokenCall.stale # None /\ tokenCall.needsReauth
    /\ accounts[tokenCall.user].needsReauth

\* C21: a getValidMailAccessToken call for a stored account calls the refresh exactly
\* when the account has no access token, no expiry, or now is at or past expiresAt
\* minus 60 seconds; otherwise it returns the stored token and leaves the account
\* as it was. A token with 30 seconds left is refreshed, one with 5 minutes left is not.
C21_RefreshWithinMargin ==
    [][\A u \in Users :
          (tokenCall' # tokenCall /\ tokenCall'.user = u /\ accounts[u].exists) =>
             LET acc == accounts[u]
                 due == \/ acc.accessToken = None
                        \/ acc.expiresAt = 0
                        \/ acc.expiresAt - NowMs <= 60000
             IN /\ tokenCall'.attempted <=> due
                /\ ~due => /\ tokenCall'.kind = "token"
                           /\ tokenCall'.token = acc.accessToken
                           /\ accounts'[u] = acc
                /\ (acc.accessToken # None /\ acc.expiresAt - NowMs = 30000) =>
                      tokenCall'.attempted
                /\ (acc.accessToken # None /\ acc.expiresAt - NowMs = 300000) =>
                      ~tokenCall'.attempted]_vars

\* C21 witness: a call found a token with 30 seconds left and exchanged it for a new one.
C21_Witness ==
    /\ tokenCall.kind = "token" /\ tokenCall.attempted
    /\ tokenCall.dueIn = 30000
    /\ tokenCall.stale # None /\ tokenCall.token # tokenCall.stale

\* the accounts the query of the refreshAllMailTokens call found
Found(run) == {u \in Users : run.rows[u].exists}

\* C22: refreshAllMailTokens attempts every active account its query found, whatever
\* happened to the accounts before it: while it runs, the accounts counted so far are
\* exactly those already attempted and the others are still ahead; when it returns,
\* every account found was attempted and success + failed is their number.
C22_RefreshAllCountsEveryAccount ==
    /\ refreshRun.stage # "idle" =>
          /\ refreshRun.success + refreshRun.failed
                = Cardinality({u \in Found(refreshRun) : refreshRun.outcome[u] # "none"})
          /\ refreshRun.success
                = Cardinality({u \in Users : refreshRun.outcome[u] = "success"})
          /\ {u \in Found(refreshRun) : refreshRun.outcome[u] = "none"}
                = {refreshRun.todo[i] : i \in 1..Len(refreshRun.todo)}
    /\ refreshRun.stage = "done" =>
          /\ \A u \in Found(refreshRun) : refreshRun.outcome[u] # "none"
          /\ refreshRun.success + refreshRun.failed = Cardinality(Found(refreshRun))

\* C22 witness: the refresh of the first account failed and the second account was
\* still refreshed; the call returned success 1, failed 1.
C22_Witness ==
    /\ refreshRun.stage = "done"
    /\ refreshRun.outcome[1] = "failed" /\ refreshRun.outcome[2] = "success"
    /\ refreshRun.success = 1 /\ refreshRun.failed = 1
    /\ accounts[1].needsReauth /\ ~accounts[2].needsReauth

\* C23: no step of the scheduled token refresh sends a refresh request for an
\* account that is stored with needsReauth = true.
C23_NoAutomaticRetry ==
    [][\A u \in Users :
          (/\ refreshRun.stage = "loop"
           /\ Head(refreshRun.todo) = u
           /\ accounts[u].needsReauth
           /\ refreshRun.rows[u].needsReauth
           /\ refreshRun.rows[u].refreshToken # None)
          => refreshRun'.outcome[u] = "none"]_vars

\* ------------------------------------------------------------------ properties: sync
Active(s) == runs[s].pc # "idle"

C8_OneSyncAtATime ==
    \A s \in Slots, o \in Slots : (Active(s) /\ Active(o)) => s = o

\* the list request of a syncUserEmails call of slot s has been answered with ids
Listed(s) == runs[s].pc = "token" /\ runs'[s].pc = "diff"

\* the latest receivedAt among the stored messages of u
LatestStored(u) ==
    (CHOOSE e \in EmailsOf(u) : \A f \in EmailsOf(u) : f.receivedAt <= e.receivedAt).receivedAt

\* C11: when the user has stored messages and T is the latest receivedAt among them,
\* the call sends exactly one list request, bounded by after = floor(T / 1000) + 2,
\* and no message received in the second of T (or before it) is listed again.
C11_IncrementalListRequest ==
    [][\A s \in Slots :
          (Listed(s) /\ EmailsOf(Head(runs[s].todo)) # {}) =>
             LET u == Head(runs[s].todo)
                 T == LatestStored(u)
             IN /\ runs'[s].requests = 1
                /\ runs'[s].after = (T \div 1000) + 2
                /\ \A m \in Range(runs'[s].all) :
                      /\ m \in mailbox[u]
                      /\ MsgDate(m) \div 1000 >= (T \div 1000) + 2]_vars

\* C11 witness: a call for a user with stored messages has listed one page although
\* the provider had a further page, and the stored message received at T is still in
\* the mailbox and was not listed.
C11_Witness ==
    \E s \in Slots :
       LET u == Head(runs[s].todo)
       IN /\ runs[s].pc = "diff"
          /\ EmailsOf(u) # {}
          /\ runs[s].requests = 1
          /\ runs[s].after = (LatestStored(u) \div 1000) + 2
          /\ Len(Matching(u, runs[s].after)) > Len(runs[s].all)
          /\ \E m \in mailbox[u] \cap StoredIds(u) :
                /\ MsgDate(m) = LatestStored(u)
                /\ m \notin Range(runs[s].all)

\* C12 (as claimed): when the user has no stored message, the call lists exactly the
\* messages of the mailbox that are no older than three months before now: the ids of
\* every page the provider has for the query are considered.
C12_FirstSyncListsEveryPage ==
    [][\A s \in Slots :
          (Listed(s) /\ EmailsOf(Head(runs[s].todo)) = {}) =>
             LET u == Head(runs[s].todo)
             IN Range(runs'[s].all) =
                   {m \in mailbox[u] : MsgDate(m) \div 1000 >= (NowMs - ThreeMonthsMs) \div 1000}]_vars

\* the call of slot s has finished an iteration of its loop over the new messages
SaveStep(s) == runs[s].pc = "save" /\ runs'[s].new # runs[s].new

\* C13: an iteration of the loop whose message could not be fetched, parsed or inserted
\* stores no row of that message and no row of its attachments, and the call goes on
\* with the rest of its new messages (or returns normally after the last one); no
\* attachment row is ever left without its message.
C13_FailedMessageSkipped ==
    [][\A s \in Slots :
          SaveStep(s) =>
             LET u == Head(runs[s].todo)
                 m == Head(runs[s].new)
                 rest == Tail(runs[s].new)
             IN /\ (\A e \in emails' : ~(e.userId = u /\ e.messageId = m)) =>
                      (emails' = emails /\ attachments' = attachments)
                /\ \A a \in attachments' : \E e \in emails' : e.id = a.emailId
                /\ IF rest = <<>>
                   THEN runs'[s].pc = "idle" /\ done'.kind = "ok" /\ done'.user = u
                   ELSE runs'[s].pc = "save" /\ runs'[s].new = rest]_vars

\* C13 witness: the first new message of a call, one with attachments, was skipped
\* (neither it nor an attachment of it is stored) and a later message of the same
\* call has been stored.
C13_Witness ==
    \E s \in Slots :
       LET u == Head(runs[s].todo)
       IN /\ runs[s].pc = "save"
          /\ runs[s].newCount = Len(runs[s].new) + 2
          /\ runs[s].synced = 1
          /\ \E m \in Range(runs[s].all) \ (StoredIds(u) \cup Range(runs[s].new)) :
                AttachmentIds(m) # {}
          /\ \A a \in attachments : \E e \in emails : e.id = a.emailId



\* C38: when the download or the insert of an attachment fails in an iteration of the
\* loop over the new messages, the message's row is stored all the same, every other
\* attachment of the message is still attempted (each one is either stored or logged
\* as failed), and the iteration counts the message as synced.
C38_AttachmentFailureKeepsMessage ==
    [][\A s \in Slots :
          SaveStep(s) =>
             LET r == runs[s]
                 row == NewEmail(Head(r.todo), Head(r.new))
                 ids == AttachmentIds(row.messageId)
                 att(a) == [emailId |-> row.id, attachmentId |-> a]
                 lost == {a \in ids : att(a) \in failedAttachments' \ failedAttachments}
             IN lost # {} =>
                   /\ row \in emails'
                   /\ \A a \in ids : (att(a) \in attachments') # (a \in lost)
                   /\ IF Tail(r.new) = <<>>
                      THEN done'.kind = "ok" /\ done'.synced = r.synced + 1
                      ELSE runs'[s].synced = r.synced + 1]_vars

\* C38 witness: a call has stored its first new message and counted it, the first
\* attachment of that message failed and the second one is stored.
C38_Witness ==
    \E s \in Slots : \E e \in emails :
       /\ runs[s].pc = "save"
       /\ runs[s].synced = 1
       /\ runs[s].newCount = Len(runs[s].new) + 1
       /\ EmailsOf(Head(runs[s].todo)) = {e}
       /\ AttachmentIds(e.messageId) # {}
       /\ [emailId |-> e.id, attachmentId |-> 1] \in failedAttachments
       /\ [emailId |-> e.id, attachmentId |-> 1] \notin attachments
       /\ [emailId |-> e.id, attachmentId |-> MaxAttachments] \in attachments

\* the message is inside the window of a first sync (the last three months)
InWindow(m) == MsgDate(m) \div 1000 >= (NowMs - ThreeMonthsMs) \div 1000

\* the messages the provider lists for the first user inside the window
Awaited == {m \in mailbox[1] : InWindow(m)}

\* C30: every message of the first user's mailbox that is inside the sync window is
\* stored in the end.
C30_EveryMessageEventuallyStored ==
    \A m \in ListMsgIds :
       [](m \in Awaited => <>(m \in StoredIds(1)))

\* C37: no step of a sync run changes or deletes a stored email: every row of
\* the emails table is in the table, with all its fields, after the step.
C37_StoredEmailsUntouched ==
    [][\A e \in emails : e \in emails']_vars

\* C37 witness: a sync call has just stored a message of a user who already had
\* a stored message.
C37_Witness ==
    /\ done.kind = "ok" /\ done.synced >= 1
    /\ Cardinality(EmailsOf(done.user)) >= 2

\* ------------------------------------------------------------------ properties: duplicates
\* the duplicate flags of the owner's records: who is flagged, and which primary each points at
Grouping(table, userId) ==
    {<<r.id, r.primaryReportId>> : r \in {x \in table : x.isDuplicate /\ ownerOf(x) = userId}}

\* C18 (as claimed): with the records unchanged, resetDuplicates(owner) followed by
\* markDuplicates(owner), run after a markDuplicates(owner), flags the same records as
\* that earlier run left flagged, each pointing at the same primary.
C18_RemarkReproducesGrouping ==
    \A u \in Users :
       LET marked == markDuplicates(reports, u)
           again == markDuplicates(resetDuplicates(marked, u), u)
       IN Grouping(again, u) = Grouping(marked, u)

\* the two records are what the claim calls the same purchase
SamePurchase(a, b) ==
    /\ a.isPayment /\ b.isPayment
    /\ a.paymentDate # None /\ b.paymentDate # None
    /\ Abs(a.paymentDate - b.paymentDate) <= DayMs
    /\ a.amount # 0 /\ a.amount = b.amount
    /\ isSimilarMerchant(a.merchant, b.merchant)

\* C19 (as claimed): after markDuplicates(owner), two payment records of the owner with
\* payment dates at most one day apart, equal amounts and similar merchant names are
\* not both non-duplicates and are not duplicates of different primaries.
C19_SamePurchaseGrouped ==
    \A u \in Users :
       LET marked == markDuplicates(reports, u)
           mine == {r \in marked : ownerOf(r) = u}
       IN \A a \in mine, b \in mine :
             (a.id # b.id /\ SamePurchase(a, b)) =>
                /\ a.isDuplicate \/ b.isDuplicate
                /\ (a.isDuplicate /\ b.isDuplicate) => a.primaryReportId = b.primaryReportId

\* the row of the table with this id
rowOf(table, id) == CHOOSE r \in table : r.id = id

\* C20: in every group detectDuplicates finds, the primary's detail score is at least
\* that of every other member; markDuplicates leaves isDuplicate = true and
\* primaryReportId = the primary's id on every other member and isDuplicate = false
\* on the primary.
C20_PrimaryHasBestScore ==
    \A u \in Users :
       LET groups == detectDuplicates(reports, u)
           marked == markDuplicates(reports, u)
       IN \A k \in 1..Len(groups) :
             /\ ~rowOf(marked, groups[k].primary.id).isDuplicate
             /\ groups[k].duplicates # <<>>
             /\ \A d \in Range(groups[k].duplicates) :
                   /\ d.id # groups[k].primary.id
                   /\ getDetailScore(groups[k].primary) >= getDetailScore(d)
                   /\ rowOf(marked, d.id).isDuplicate
                   /\ rowOf(marked, d.id).primaryReportId = groups[k].primary.id

\* C20 witness: markDuplicates has flagged an older record as the duplicate of a later
\* one with a higher detail score.
C20_Witness ==
    \E d \in reports, p \in reports :
       /\ d.isDuplicate /\ d.primaryReportId = p.id /\ ~p.isDuplicate
       /\ before(d, p)
       /\ getDetailScore(p) > getDetailScore(d)
       /\ ownerOf(d) = ownerOf(p)


\* C33 (as claimed): with the records unchanged, a second markDuplicates(owner)
\* right after a first one flags no further record and changes no
\* primaryReportId.
C33_SecondMarkChangesNothing ==
    \A u \in Users :
       LET once == markDuplicates(reports, u)
           twice == markDuplicates(once, u)
       IN \A r \in once :
             /\ rowOf(twice, r.id).isDuplicate = r.isDuplicate
             /\ rowOf(twice, r.id).primaryReportId = r.primaryReportId

\* C36 (as claimed): a step of the analysis engine leaves isDuplicate and
\* primaryReportId of every record it keeps as they were, and a record it
\* removes for a forced re-analysis carried the duplicate status of the record
\* that replaces it (not a duplicate, no primary).
C36_AnalysisKeepsDuplicateFields ==
    [][calls' # calls =>
          \A r \in reports :
             IF \E x \in reports' : x.id = r.id
             THEN /\ rowOf(reports', r.id).isDuplicate = r.isDuplicate
                  /\ rowOf(reports', r.id).primaryReportId = r.primaryReportId
             ELSE ~r.isDuplicate /\ r.primaryReportId = None]_vars

\* ------------------------------------------------------------------ properties: evidence
\* C25: the files collected for one message are never more than the file cap.
C25_FilesWithinCap ==
    Len(collected.files) <= FileCap

\* the files collected from downloads and from inline attachments
FromUrl(i) == \E k \in 1..Len(collected.files) :
                 collected.files[k].from = "url" /\ collected.files[k].ref = i
FromInline(i) == \E k \in 1..Len(collected.files) :
                    collected.files[k].from = "inline" /\ collected.files[k].ref = i

\* the img sources with an http(s) scheme, and those naming a tracking pattern
HttpSrcs == {url \in ImgSrcs : startsWith(url, HttpScheme) \/ startsWith(url, HttpsScheme)}
TrackingSrcs ==
    {url \in ImgSrcs : \E pattern \in trackingPatterns : includes(toLowerCase(url), pattern)}

\* C26: every download is of an http(s) URL of the body that passed the URL pre-filter
\* and names no tracking pattern; the URL with "tracking-pixel.gif" is never downloaded.
C26_TrackingPixelNeverDownloaded ==
    \A k \in 1..Len(collected.downloads) :
       LET url == collected.downloads[k].url
       IN /\ url \in HttpSrcs
          /\ url \notin TrackingSrcs
          /\ url # TrackingPixelGif
          /\ \E i \in 1..Len(collected.htmlBody) : collected.htmlBody[i] = url

\* C26 witness: the body names the tracking pixel and a receipt image, and only the
\* receipt image was downloaded.
C26_Witness ==
    /\ collected.stage = "returned"
    /\ collected.htmlBody = <<TrackingPixelGif, ReceiptPng>>
    /\ Len(collected.downloads) = 1
    /\ collected.downloads[1].url = ReceiptPng

\* image data within the byte limits whose sides are known
Measured(img) == ~img.sizeThrows /\ img.width # 0 /\ img.height # 0
WithinBytes(img, fromUrl) ==
    img.ok /\ img.image /\ img.bytes <= ImageLimit /\ (fromUrl => img.bytes >= TinyBytes)

RECURSIVE Walk(_)
\* the parts of a tree in the order of the walk: a part, its parts, the next part
Walk(parts) ==
    IF parts = <<>> THEN <<>>
    ELSE <<Head(parts)>> \o Walk(Head(parts).parts) \o Walk(Tail(parts))

\* the positions in the walk of the parts of a type that carry body data
Carrying(walk, mimeType) ==
    {i \in 1..Len(walk) : walk[i].mimeType = mimeType /\ walk[i].data # <<>>}

\* C28: for a multipart message the text body is the decoded content of the first
\* text/plain part of the walk that carries body data, and the html body that of the
\* last such text/html part; a body is empty when no such part exists.
C28_FirstPlainLastHtml ==
    (parsed.stage = "parsed" /\ parsed.payload.parts # <<>>) =>
       LET walk == Walk(parsed.payload.parts)
           plain == Carrying(walk, "text/plain")
           html == Carrying(walk, "text/html")
       IN /\ parsed.body =
                IF plain = {} THEN <<>>
                ELSE decodeBase64Url(walk[CHOOSE i \in plain : \A j \in plain : i <= j].data)
          /\ parsed.htmlBody =
                IF html = {} THEN <<>>
                ELSE decodeBase64Url(walk[CHOOSE i \in html : \A j \in html : i >= j].data)

\* C28 witness: one text/plain part followed by two text/html parts of different
\* content; the text body is the plain part, the html body the second html part.
C28_Witness ==
    /\ parsed.stage = "parsed"
    /\ parsed.payload.parts = <<BodyPart("text/plain", HiData), BodyPart("text/html", HiData),
                                BodyPart("text/html", QuestionData)>>
    /\ parsed.body = <<"H","i">>
    /\ parsed.htmlBody = <<"?","?","?">>

====
